---------------------------- MODULE Spec2Model ----------------------------
(***************************************************************************)
(* BOTcontroller.py: the throttled broadcast dispatcher.                   *)
(*                                                                         *)
(*   - send_message_to_chat : the delivery primitive and its classification *)
(*     of transport results into (success, message text);                  *)
(*   - spam_chat            : the single-target loop (pc labels c_...);    *)
(*   - spam_all_known_chats : the cyclic loop over the discovered chats,   *)
(*     bounded by a wall-clock deadline (pc labels m_...);                 *)
(*   - BotController        : the is_spamming flag, the modal input        *)
(*     dialogs, and the asyncio tasks the dialog callbacks create          *)
(*     (specification SpecApp).                                            *)
(*                                                                         *)
(* Text is a sequence of Unicode code points, so that str.startswith,      *)
(* str.split and the substring test `in` are computed as Python computes   *)
(* them.  Time is counted in ticks of 0.1 s, the polling interval of the   *)
(* cyclic loop; synchronous code takes no time, time passes only while a   *)
(* coroutine is suspended in an await.                                     *)
(***************************************************************************)
EXTENDS Integers, Sequences, FiniteSets, TLC

(***************************************************************************)
(* Bounds of the model.                                                    *)
(***************************************************************************)
\* largest count given to spam_chat
MaxCount == 3
\* largest duration of a cyclic session, in ticks
MaxDuration == 12
\* largest retry_after the transport reports, in seconds
MaxRetryAfter == 2
\* longest time one transport call may take, in ticks
MaxSendTicks == 1
\* most tasks and awaited calls the application begins in one run (SpecApp)
MaxTasks == 3

(***************************************************************************)
(* Program constants.                                                      *)
(***************************************************************************)
\* ticks per second: asyncio.sleep(0.1) is one tick
TicksPerSecond == 10
\* the polling sleep, asyncio.sleep(0.1), in ticks
PollTicks == 1
\* the minimum cycle duration, 1.0 s, in seconds
MinCycleSeconds == 1

(***************************************************************************)
(* Text: sequences of code points.                                         *)
(***************************************************************************)
\* ':'
COLON == 58
\* '@'
AT == 64
\* '-'
MINUS == 45
\* '0'
ZERO == 48

\* s.startswith(p)
StartsWith(s, p) == Len(s) >= Len(p) /\ SubSeq(s, 1, Len(p)) = p

\* p in s
Contains(s, p) ==
    \E k \in 0..(Len(s) - Len(p)) : SubSeq(s, k + 1, k + Len(p)) = p

\* the positions of sep in s
SepPositions(s, sep) == {k \in 1..Len(s) : s[k] = sep}

\* s.split(sep)[1]: the text between the first and the second sep; the
\* empty tuple <<-1>> stands for IndexError (no sep in s)
NoField == << -1 >>
SplitField1(s, sep) ==
    LET P == SepPositions(s, sep) IN
    IF P = {} THEN NoField
    ELSE LET a == CHOOSE k \in P : \A j \in P : k <= j
             R == {k \in P : k > a}
             b == IF R = {} THEN Len(s) + 1
                  ELSE CHOOSE k \in R : \A j \in R : k <= j
         IN  SubSeq(s, a + 1, b - 1)

\* s.count(sep)
CountSep(s, sep) == Cardinality(SepPositions(s, sep))

\* '+'
PLUS == 43
\* '_'
UNDERSCORE == 95

\* the first code point of each block of ten decimal digits (Unicode
\* category Nd): the characters int() reads as digits and \d matches
DecimalZeros ==
    {48, 1632, 1776, 1984, 2406, 2534, 2662, 2790, 2918, 3046, 3174, 3302, 3430, 3558,
     3664, 3792, 3872, 4160, 4240, 6112, 6160, 6470, 6608, 6784, 6800, 6992, 7088, 7232,
     7248, 42528, 43216, 43264, 43472, 43504, 43600, 44016, 65296, 66720, 68912, 69734,
     69872, 69942, 70096, 70384, 70736, 70864, 71248, 71360, 71472, 71904, 72016, 72784,
     73040, 73120, 92768, 92864, 93008, 120782, 120792, 120802, 120812, 120822, 123200,
     123632, 125264, 130032}

\* the white space int() strips from both ends of its argument
IntSpaces ==
    {9, 10, 11, 12, 13, 32, 133, 160, 5760, 8232, 8233, 8239, 8287, 12288}
    \cup 8192..8202

\* c is a decimal digit
IsDigit(c) == \E z \in DecimalZeros : c \in z..(z + 9)

\* the value of the decimal digit c
DigitValue(c) == c - (CHOOSE z \in DecimalZeros : c \in z..(z + 9))

\* s.strip() as int() strips
Stripped(s) ==
    LET K == {k \in 1..Len(s) : s[k] \notin IntSpaces} IN
    IF K = {} THEN << >>
    ELSE SubSeq(s, CHOOSE k \in K : \A j \in 1..(k - 1) : s[j] \in IntSpaces,
                   CHOOSE k \in K : \A j \in (k + 1)..Len(s) : s[j] \in IntSpaces)

\* b is what int() accepts after the sign: decimal digits, with single
\* underscores between digits
DigitsBody(b) ==
    /\ Len(b) > 0
    /\ \A k \in 1..Len(b) :
          \/ IsDigit(b[k])
          \/ b[k] = UNDERSCORE /\ 1 < k /\ k < Len(b)
             /\ IsDigit(b[k - 1]) /\ IsDigit(b[k + 1])

\* sys.get_int_max_str_digits(): the most digits int() converts; a text of
\* more digits raises ValueError
INT_MAX_STR_DIGITS == 4300

\* the digits of a body of digits and underscores
DigitCount(b) == Cardinality({k \in 1..Len(b) : b[k] # UNDERSCORE})

\* int() converts the body b
IntBody(b) == DigitsBody(b) /\ DigitCount(b) <= INT_MAX_STR_DIGITS

\* int(s) succeeds and s has no sign
AllDigits(s) == IntBody(Stripped(s))

RECURSIVE DigitsValue(_)
\* the number a body of digits and underscores denotes
DigitsValue(b) ==
    IF b = << >> THEN 0
    ELSE IF b[Len(b)] = UNDERSCORE THEN DigitsValue(SubSeq(b, 1, Len(b) - 1))
    ELSE 10 * DigitsValue(SubSeq(b, 1, Len(b) - 1)) + DigitValue(b[Len(b)])

RECURSIVE NatText(_)
\* str(n) for n >= 0
NatText(n) ==
    IF n < 10 THEN << ZERO + n >>
    ELSE NatText(n \div 10) \o << ZERO + (n % 10) >>

\* str(n) for an int n
IntText(n) == IF n < 0 THEN << MINUS >> \o NatText(0 - n) ELSE NatText(n)

\* the text after the optional sign
Unsigned(t) == IF t # << >> /\ t[1] \in {PLUS, MINUS} THEN Tail(t) ELSE t

\* int(s) succeeds: white space stripped, an optional sign, a body of no
\* more than INT_MAX_STR_DIGITS digits
IsIntText(s) == IntBody(Unsigned(Stripped(s)))

\* int(s), where it succeeds
IntValue(s) ==
    LET t == Stripped(s) IN
    IF t[1] = MINUS THEN 0 - DigitsValue(Tail(t)) ELSE DigitsValue(Unsigned(t))

\* float(s) succeeds, for the texts of integers; float() has no limit on
\* the digits
IsFloatText(s) == s # NoField /\ DigitsBody(Unsigned(Stripped(s)))

FloatValue(s) == IntValue(s)

(***************************************************************************)
(* The texts of the source.                                                *)
(***************************************************************************)
\* "недействителен", the substring spam_chat and spam_all_known_chats look for
NEEDLE == << 1085, 1077, 1076, 1077, 1081, 1089, 1090, 1074, 1080, 1090, 1077, 1083, 1077,
    1085 >>
\* "RATE_LIMIT"
RATE_LIMIT == << 82, 65, 84, 69, 95, 76, 73, 77, 73, 84 >>
\* "ID чата не указан."
MSG_NO_CHAT == << 73, 68, 32, 1095, 1072, 1090, 1072, 32, 1085, 1077, 32, 1091, 1082,
    1072, 1079, 1072, 1085, 46 >>
\* "Текст сообщения пустой."
MSG_NO_TEXT == << 1058, 1077, 1082, 1089, 1090, 32, 1089, 1086, 1086, 1073, 1097, 1077,
    1085, 1080, 1103, 32, 1087, 1091, 1089, 1090, 1086, 1081, 46 >>
\* "Сообщение отправлено в чат "
MSG_SENT == << 1057, 1086, 1086, 1073, 1097, 1077, 1085, 1080, 1077, 32, 1086, 1090, 1087,
    1088, 1072, 1074, 1083, 1077, 1085, 1086, 32, 1074, 32, 1095, 1072, 1090, 32 >>
\* "Ошибка BadRequest при отправке в "
MSG_BADREQ == << 1054, 1096, 1080, 1073, 1082, 1072, 32, 66, 97, 100, 82, 101, 113, 117,
    101, 115, 116, 32, 1087, 1088, 1080, 32, 1086, 1090, 1087, 1088, 1072, 1074, 1082,
    1077, 32, 1074, 32 >>
\* "Ошибка! Токен стал недействительным во время отправки."
MSG_TOKEN == << 1054, 1096, 1080, 1073, 1082, 1072, 33, 32, 1058, 1086, 1082, 1077, 1085,
    32, 1089, 1090, 1072, 1083, 32, 1085, 1077, 1076, 1077, 1081, 1089, 1090, 1074, 1080,
    1090, 1077, 1083, 1100, 1085, 1099, 1084, 32, 1074, 1086, 32, 1074, 1088, 1077, 1084,
    1103, 32, 1086, 1090, 1087, 1088, 1072, 1074, 1082, 1080, 46 >>
\* "Ошибка с сетью при отправке в "
MSG_NET == << 1054, 1096, 1080, 1073, 1082, 1072, 32, 1089, 32, 1089, 1077, 1090, 1100,
    1102, 32, 1087, 1088, 1080, 32, 1086, 1090, 1087, 1088, 1072, 1074, 1082, 1077, 32,
    1074, 32 >>
\* "Другая ошибка Telegram при отправке в чат "
MSG_OTHER == << 1044, 1088, 1091, 1075, 1072, 1103, 32, 1086, 1096, 1080, 1073, 1082,
    1072, 32, 84, 101, 108, 101, 103, 114, 97, 109, 32, 1087, 1088, 1080, 32, 1086, 1090,
    1087, 1088, 1072, 1074, 1082, 1077, 32, 1074, 32, 1095, 1072, 1090, 32 >>
\* "Непредвиденная ошибка при отправке в "
MSG_UNEXPECTED == << 1053, 1077, 1087, 1088, 1077, 1076, 1074, 1080, 1076, 1077, 1085,
    1085, 1072, 1103, 32, 1086, 1096, 1080, 1073, 1082, 1072, 32, 1087, 1088, 1080, 32,
    1086, 1090, 1087, 1088, 1072, 1074, 1082, 1077, 32, 1074, 32 >>
\* " (после ожидания)"
SUFFIX_AFTER_WAIT == << 32, 40, 1087, 1086, 1089, 1083, 1077, 32, 1086, 1078, 1080, 1076,
    1072, 1085, 1080, 1103, 41 >>
\* "ID чата для спама не указан."
R_NO_CHAT == << 73, 68, 32, 1095, 1072, 1090, 1072, 32, 1076, 1083, 1103, 32, 1089, 1087,
    1072, 1084, 1072, 32, 1085, 1077, 32, 1091, 1082, 1072, 1079, 1072, 1085, 46 >>
\* "Текст для спама пустой."
R_NO_TEXT == << 1058, 1077, 1082, 1089, 1090, 32, 1076, 1083, 1103, 32, 1089, 1087, 1072,
    1084, 1072, 32, 1087, 1091, 1089, 1090, 1086, 1081, 46 >>
\* "Количество сообщений должно быть больше нуля."
R_COUNT == << 1050, 1086, 1083, 1080, 1095, 1077, 1089, 1090, 1074, 1086, 32, 1089, 1086,
    1086, 1073, 1097, 1077, 1085, 1080, 1081, 32, 1076, 1086, 1083, 1078, 1085, 1086, 32,
    1073, 1099, 1090, 1100, 32, 1073, 1086, 1083, 1100, 1096, 1077, 32, 1085, 1091, 1083,
    1103, 46 >>
\* "Задержка не может быть отрицательной."
R_DELAY == << 1047, 1072, 1076, 1077, 1088, 1078, 1082, 1072, 32, 1085, 1077, 32, 1084,
    1086, 1078, 1077, 1090, 32, 1073, 1099, 1090, 1100, 32, 1086, 1090, 1088, 1080, 1094,
    1072, 1090, 1077, 1083, 1100, 1085, 1086, 1081, 46 >>
\* "Не найдено ни одного ID чата в логе. Запусти 'Лог Апдейтов', чтобы собрать их."
R_NO_IDS == << 1053, 1077, 32, 1085, 1072, 1081, 1076, 1077, 1085, 1086, 32, 1085, 1080,
    32, 1086, 1076, 1085, 1086, 1075, 1086, 32, 73, 68, 32, 1095, 1072, 1090, 1072, 32,
    1074, 32, 1083, 1086, 1075, 1077, 46, 32, 1047, 1072, 1087, 1091, 1089, 1090, 1080,
    32, 39, 1051, 1086, 1075, 32, 1040, 1087, 1076, 1077, 1081, 1090, 1086, 1074, 39, 44,
    32, 1095, 1090, 1086, 1073, 1099, 32, 1089, 1086, 1073, 1088, 1072, 1090, 1100, 32,
    1080, 1093, 46 >>
\* "Ошибка! Объект бота пропал во время спама."
R_NO_BOT == << 1054, 1096, 1080, 1073, 1082, 1072, 33, 32, 1054, 1073, 1098, 1077, 1082,
    1090, 32, 1073, 1086, 1090, 1072, 32, 1087, 1088, 1086, 1087, 1072, 1083, 32, 1074,
    1086, 32, 1074, 1088, 1077, 1084, 1103, 32, 1089, 1087, 1072, 1084, 1072, 46 >>
\* "Ошибка! Объект бота пропал во время массового спама."
R_NO_BOT_MASS == << 1054, 1096, 1080, 1073, 1082, 1072, 33, 32, 1054, 1073, 1098, 1077,
    1082, 1090, 32, 1073, 1086, 1090, 1072, 32, 1087, 1088, 1086, 1087, 1072, 1083, 32,
    1074, 1086, 32, 1074, 1088, 1077, 1084, 1103, 32, 1084, 1072, 1089, 1089, 1086, 1074,
    1086, 1075, 1086, 32, 1089, 1087, 1072, 1084, 1072, 46 >>
\* "Лог Апдейтов", the name of the action that fills the log
LOG_UPDATES == << 1051, 1086, 1075, 32, 1040, 1087, 1076, 1077, 1081, 1090, 1086, 1074 >>
\* ": "
COLON_SPACE == << 58, 32 >>
\* "."
DOT == << 46 >>

(***************************************************************************)
(* The transport (telegram.Bot.send_message), outside the repository: one  *)
(* call ends in one of the outcomes send_message_to_chat distinguishes.    *)
(***************************************************************************)
\* the exception text of a BadRequest: "Chat not found"
E_BADREQ == << 67, 104, 97, 116, 32, 110, 111, 116, 32, 102, 111, 117, 110, 100 >>
\* the exception text of a NetworkError: "Timed out"
E_NET == << 84, 105, 109, 101, 100, 32, 111, 117, 116 >>
\* the exception text of another TelegramError: "Forbidden"
E_OTHER == << 70, 111, 114, 98, 105, 100, 100, 101, 110 >>
\* the exception text of an exception that is no TelegramError: "closed"
E_UNEXPECTED == << 99, 108, 111, 115, 101, 100 >>

Outcomes ==
    [kind : {"Delivered", "BadRequest", "InvalidToken", "NetworkError", "TelegramError",
             "Exception"}, retry_after : {0}]
    \cup [kind : {"RetryAfter"}, retry_after : 1..MaxRetryAfter]

\* an outcome for a call that never reaches the transport
NoOutcome == [kind |-> "none", retry_after |-> 0]

(***************************************************************************)
(* send_message_to_chat                                                    *)
(***************************************************************************)
\* lines 156-163: int(chat_id_str), or the handle with a leading '@'
ProcessedChatId(chat_id_str) ==
    IF IsIntText(chat_id_str) THEN IntText(IntValue(chat_id_str))
    ELSE IF chat_id_str[1] # AT THEN << AT >> \o chat_id_str
    ELSE chat_id_str

\* lines 151-154: the call returns before it reaches the transport
ReachesTransport(chat_id_str, text) == chat_id_str # << >> /\ text # << >>

SendOutcomes(chat_id_str, text) ==
    IF ReachesTransport(chat_id_str, text) THEN Outcomes ELSE {NoOutcome}

\* the token check of both loops, `"недействителен" in result_msg`
TokenInvalid(result_msg) == Contains(result_msg, NEEDLE)

\* the value of send_message_to_chat(bot, chat_id_str, text, None, True) when
\* the transport call ends in outcome o: <<success, message>>
SendMessageToChat(chat_id_str, text, o) ==
    IF chat_id_str = << >> THEN << FALSE, MSG_NO_CHAT >>
    ELSE IF text = << >> THEN << FALSE, MSG_NO_TEXT >>
    ELSE LET p == ProcessedChatId(chat_id_str) IN
         CASE o.kind = "Delivered"    -> << TRUE, MSG_SENT \o p >>
           [] o.kind = "RetryAfter"   ->
                << FALSE, RATE_LIMIT \o << COLON >> \o IntText(o.retry_after) >>
           [] o.kind = "BadRequest"   ->
                << FALSE, MSG_BADREQ \o p \o COLON_SPACE \o E_BADREQ \o DOT >>
           [] o.kind = "InvalidToken" -> << FALSE, MSG_TOKEN >>
           [] o.kind = "NetworkError" ->
                << FALSE, MSG_NET \o p \o COLON_SPACE \o E_NET >>
           [] o.kind = "TelegramError" ->
                << FALSE, MSG_OTHER \o p \o COLON_SPACE \o E_OTHER >>
           [] o.kind = "Exception" ->
                << FALSE, MSG_UNEXPECTED \o p \o COLON_SPACE \o E_UNEXPECTED >>

(***************************************************************************)
(* State.                                                                  *)
(***************************************************************************)
VARIABLES
    \* the session: which loop runs, and its arguments
    mode, chat_id_str, message_text, count, delay, duration_minutes, chat_ids,
    \* the locals of spam_chat and spam_all_known_chats
    success_count, error_count, rate_limit_waits, total_sent_attempts,
    start_time, end_time, last_error, stopped_by_time, chat_ids_list,
    i, current_delay, wait_time, wait_start, current_cycle_start_time,
    \* time.monotonic(), the position of the coroutine, its return value
    now, pc, ret,
    \* observers: transport calls made; the calls, waits and outcomes of the
    \* latest iteration; the counters before that iteration's outcome was
    \* handled; the call that returned InvalidToken; whether every call was
    \* delivered; the calls that were delivered; rate-limit waits begun;
    \* app_log_callback calls; the exit the loop took
    calls, iter, pre, invalid_at, all_delivered, delivered_calls, waits_begun, log_lines,
    exit_via,
    \* BotController: the flag, the bot, the token, the screen on top, the
    \* asyncio tasks with the calls of run_bot_action a key's action awaits,
    \* and how many of them were begun
    is_spamming, bot, current_token, screen, tasks, created,
    \* the received-data log file, and the lines of it that
    \* extract_chat_ids_from_log has read; the calls of it so far, what the
    \* first call returned and the file as that call left it
    received_data_log, lines_read, runs, first_result, first_log,
    \* the updates bot.get_updates returned, the text bot.send_message was
    \* given, and whether get_and_log_updates was given an app_log_callback
    updates, transport_text, app_log_callback

inputVars == << mode, chat_id_str, message_text, count, delay, duration_minutes, chat_ids >>
localVars == << success_count, error_count, rate_limit_waits, total_sent_attempts,
                start_time, end_time, last_error, stopped_by_time, chat_ids_list,
                i, current_delay, wait_time, wait_start, current_cycle_start_time >>
runVars == << now, pc, ret >>
obsVars == << calls, iter, pre, invalid_at, all_delivered, delivered_calls, waits_begun,
             log_lines, exit_via >>
sessionVars == << inputVars, localVars, runVars, obsVars >>
appVars == << is_spamming, bot, current_token, screen, tasks, created >>
logVars == << received_data_log, lines_read, runs, first_result, first_log, updates,
             transport_text, app_log_callback >>
vars == << sessionVars, appVars, logVars >>

(***************************************************************************)
(* The arguments a session is started with.                                *)
(***************************************************************************)
\* "7"
CHAT_7 == << 55 >>
\* "+7", which int() reads as 7
CHAT_P7 == << 43, 55 >>
\* "al", a handle given without its '@'
CHAT_AL == << 97, 108 >>
\* "@недействителен", a handle that holds the text the token check looks for
CHAT_N == << 64, 1085, 1077, 1076, 1077, 1081, 1089, 1090, 1074, 1080, 1090, 1077, 1083,
    1077, 1085 >>
\* "hi"
TEXT_HI == << 104, 105 >>

ChatArgs == {<< >>, CHAT_7, CHAT_P7, CHAT_AL, CHAT_N}
TextArgs == {<< >>, TEXT_HI}
CountArgs == (-1)..MaxCount
\* spam_chat's delay, in seconds
ChatDelayArgs == {-1, 0, 1}
\* spam_all_known_chats's delay, in ticks; the last one is longer than the
\* minimum cycle
MassDelayArgs == {0, 1, 2, MinCycleSeconds * TicksPerSecond + 1}
\* duration_minutes * 60, in ticks
DurationArgs == 0..MaxDuration
\* the sets extract_chat_ids_from_log may return
DiscoveredSets == {{}, {CHAT_7}, {CHAT_N}, {CHAT_7, CHAT_N}}

\* lists in which a recipient may stand twice
ListsWithRepeats(S) == [1..Cardinality(S) -> S]

\* list(chat_ids): the elements of a set in any order
ListsOf(S) == {l \in [1..Cardinality(S) -> S] : \A a, b \in 1..Cardinality(S) : l[a] = l[b] => a = b}

NoIter == [calls |-> 0, waits |-> 0, first |-> NoOutcome, retry |-> NoOutcome]
NoPre == [success |-> 0, error |-> 0, waits |-> 0, last_error |-> << >>, lines |-> 0]
NoRet == [ok |-> FALSE, kind |-> "none", text |-> << >>, by_time |-> FALSE,
          attempts |-> 0, delivered |-> 0, failed |-> 0, waits |-> 0,
          last_error |-> << >>]

LocalsInit ==
    /\ success_count = 0 /\ error_count = 0 /\ rate_limit_waits = 0
    /\ total_sent_attempts = 0 /\ start_time = 0 /\ end_time = 0
    /\ last_error = << >> /\ stopped_by_time = FALSE /\ chat_ids_list = << >>
    /\ i = 0 /\ current_delay = 0 /\ wait_time = 0 /\ wait_start = 0
    /\ current_cycle_start_time = 0
    /\ now = 0 /\ ret = NoRet
    /\ calls = 0 /\ iter = NoIter /\ pre = NoPre /\ invalid_at = 0
    /\ all_delivered = TRUE /\ delivered_calls = 0 /\ waits_begun = 0 /\ log_lines = 0 /\ exit_via = "none"

\* the bot a session is called with: self.bot, a Bot or None
BotArgs == {"none", "Bot"}

\* the application takes no step
AppRest ==
    /\ is_spamming = FALSE /\ current_token = "none"
    /\ screen = "main" /\ tasks = << >> /\ created = 0

AppIdle == bot = "none" /\ AppRest

\* the application takes no step, and has a bot
AppWithBot == bot = "Bot" /\ AppRest

\* no log file is being read
NoLog == [state |-> "missing", text |-> << >>]

LogIdle ==
    /\ received_data_log = NoLog /\ lines_read = 0 /\ runs = 0
    /\ first_result = {} /\ first_log = NoLog
    /\ updates = << >> /\ transport_text = << >> /\ app_log_callback = FALSE

\* a call of spam_chat(bot, chat_id_str, message_text, count, delay, log);
\* the bot is chosen in Init
InitChat ==
    /\ mode = "chat" /\ pc = "c_start"
    /\ chat_id_str \in ChatArgs /\ message_text \in TextArgs
    /\ count \in CountArgs /\ delay \in ChatDelayArgs
    /\ duration_minutes = 0 /\ chat_ids = {}

\* a call of spam_all_known_chats(bot, message_text, delay, duration_minutes, log)
InitMass ==
    /\ mode = "mass" /\ pc = "m_start"
    /\ message_text \in TextArgs /\ delay \in MassDelayArgs
    /\ duration_minutes \in DurationArgs /\ chat_ids \in DiscoveredSets
    /\ chat_id_str = << >> /\ count = 0

Init == (InitChat \/ InitMass) /\ bot \in BotArgs /\ LocalsInit /\ AppRest /\ LogIdle

(***************************************************************************)
(* Observers shared by both loops.                                         *)
(***************************************************************************)
\* a transport call has ended in outcome o
Observe(o) ==
    /\ invalid_at' = IF o.kind = "InvalidToken" /\ invalid_at = 0 THEN calls
                     ELSE invalid_at
    /\ all_delivered' = (all_delivered /\ o.kind \in {"Delivered", "none"})
    /\ delivered_calls' = delivered_calls + (IF o.kind = "Delivered" THEN 1 ELSE 0)

\* result_msg.startswith("RATE_LIMIT")
IsRateLimit(result_msg) == StartsWith(result_msg, RATE_LIMIT)

\* float(result_msg.split(":")[1]) raises no exception
WaitParses(result_msg) == IsFloatText(SplitField1(result_msg, COLON))

\* a wait that ignores the server's retry_after
ParsedWaitIgnored(result_msg) == 0

\* float(result_msg.split(":")[1])
ParsedWait(result_msg) == FloatValue(SplitField1(result_msg, COLON))

(***************************************************************************)
(* spam_chat: the single-target loop.  Elapsed time is not modelled here:  *)
(* nothing in this loop reads the clock but the summary's total_time.      *)
(***************************************************************************)
chatFrame == << inputVars, error_count, rate_limit_waits, total_sent_attempts, end_time,
                stopped_by_time, chat_ids_list, wait_start, current_cycle_start_time,
                now, appVars, logVars >>

\* spam_chat without its check of the delay
SpamChatRejectsNoDelay(c, t, n, d) ==
    IF c = << >> THEN R_NO_CHAT
    ELSE IF t = << >> THEN R_NO_TEXT
    ELSE IF n <= 0 THEN R_COUNT
    ELSE << >>

\* lines 234-237: the reason spam_chat rejects its arguments with, << >> if none
SpamChatRejects(c, t, n, d) ==
    IF c = << >> THEN R_NO_CHAT
    ELSE IF t = << >> THEN R_NO_TEXT
    ELSE IF n <= 0 THEN R_COUNT
    ELSE IF d < 0 THEN R_DELAY
    ELSE << >>

\* a return value that is True whatever was delivered
ReturnsSuccessAlways(sc) == TRUE

\* lines 292 and 448: return success_count > 0, final_msg
ReturnsSuccess(sc) == sc > 0

\* line 286: len(last_error.split(':')) - 1 if last_error else 0
ChatErrorsShown(le) == IF le # << >> THEN CountSep(le, COLON) ELSE 0

\* lines 284-292: the summary and the return value
ChatSummary(ll, it, via) ==
    /\ pc' = "done"
    /\ ret' = [ok |-> ReturnsSuccess(success_count'), kind |-> "summary", text |-> << >>,
               by_time |-> FALSE, attempts |-> count, delivered |-> success_count',
               failed |-> ChatErrorsShown(last_error'), waits |-> 0,
               last_error |-> last_error']
    /\ log_lines' = log_lines + ll + 1
    /\ iter' = it
    /\ exit_via' = via
    /\ UNCHANGED << i, calls >>

\* lines 245-250: iteration ni begins; with no bot the function logs one
\* line and returns, else the first call of send_message_to_chat is made
ChatBeginIteration(ni, ll, it) ==
    IF bot = "none"
    THEN /\ pc' = "done"
         /\ i' = ni
         /\ ret' = [NoRet EXCEPT !.kind = "no_bot", !.text = R_NO_BOT]
         /\ iter' = it
         /\ log_lines' = log_lines + ll + 1
         /\ exit_via' = "no_bot"
         /\ UNCHANGED calls
    ELSE /\ pc' = "c_send1"
         /\ i' = ni
         /\ calls' = calls + 1
         /\ iter' = it
         /\ log_lines' = log_lines + ll
         /\ UNCHANGED << ret, exit_via >>

\* a loop that stops one iteration short
ChatLoopStopsShort(ni, n) == ni < n - 1

\* line 244: for i in range(count)
ChatLoopContinues(ni, n) == ni < n

ChatForHead(ni, ll, it) ==
    IF ChatLoopContinues(ni, count) THEN ChatBeginIteration(ni, ll, it)
    ELSE ChatSummary(ll, it, "completed")

\* a delay that also follows the last iteration
DelayFollowsLast(ni, n, cd) == cd > 0

\* line 281: if i < count - 1 and current_delay > 0
DelayFollows(ni, n, cd) == ni < n - 1 /\ cd > 0

\* lines 281-282: the delay between two iterations
ChatPost(ll, it) ==
    IF DelayFollows(i, count, current_delay')
    THEN /\ pc' = "c_delay"
         /\ log_lines' = log_lines + ll
         /\ iter' = it
         /\ UNCHANGED << i, ret, calls, exit_via >>
    ELSE ChatForHead(i + 1, ll, it)

\* lines 277-279: the token check after a failed first attempt
ChatAfterFailure(result_msg, ll, it) ==
    IF TokenInvalid(result_msg) THEN ChatSummary(ll + 1, it, "fatal")
    ELSE ChatPost(ll, it)

\* lines 233-250
ChatStart ==
    /\ pc = "c_start"
    /\ LET why == SpamChatRejects(chat_id_str, message_text, count, delay) IN
       IF why # << >>
       THEN /\ pc' = "done"
            /\ ret' = [NoRet EXCEPT !.kind = "rejected", !.text = why]
            /\ UNCHANGED << success_count, last_error, start_time, i, calls, iter,
                            log_lines, exit_via >>
       ELSE /\ success_count' = 0
            /\ last_error' = << >>
            /\ start_time' = now
            /\ ChatForHead(0, 1, NoIter)
    /\ UNCHANGED << current_delay, wait_time, pre, invalid_at, all_delivered, delivered_calls, waits_begun,
                    chatFrame >>

\* lines 250-282: the first call of an iteration returns
ChatSend1Return ==
    /\ pc = "c_send1"
    /\ \E o \in SendOutcomes(chat_id_str, message_text) :
        LET r == SendMessageToChat(chat_id_str, message_text, o)
            success == r[1]
            result_msg == r[2]
            it == [calls |-> 1, waits |-> 0, first |-> o, retry |-> NoOutcome]
        IN  /\ Observe(o)
            /\ pre' = [NoPre EXCEPT !.success = success_count, !.last_error = last_error,
                                   !.lines = log_lines]
            /\ current_delay' = delay
            /\ IF success
               THEN /\ success_count' = success_count + 1
                    /\ UNCHANGED << last_error, wait_time, waits_begun >>
                    /\ ChatPost(1, it)
               ELSE /\ success_count' = success_count
                    /\ last_error' = result_msg
                    /\ IF IsRateLimit(result_msg) /\ WaitParses(result_msg)
                       THEN \* lines 259-261: await asyncio.sleep(wait_time)
                            /\ wait_time' = ParsedWait(result_msg)
                            /\ waits_begun' = waits_begun + 1
                            /\ pc' = "c_rlsleep"
                            /\ log_lines' = log_lines + 1
                            /\ iter' = [it EXCEPT !.waits = 1]
                            /\ UNCHANGED << i, ret, calls, exit_via >>
                       ELSE \* line 272 or line 275, one line logged
                            /\ UNCHANGED << wait_time, waits_begun >>
                            /\ ChatAfterFailure(result_msg, 1, it)
    /\ UNCHANGED << start_time, chatFrame >>

\* lines 261-263: the rate-limit sleep ends and the retry is sent
ChatRlSleepReturn ==
    /\ pc = "c_rlsleep"
    /\ current_delay' = 0
    /\ pc' = "c_send2"
    /\ calls' = calls + 1
    /\ iter' = [iter EXCEPT !.calls = @ + 1]
    /\ UNCHANGED << success_count, last_error, wait_time, start_time, i, ret, pre,
                    invalid_at, all_delivered, delivered_calls, waits_begun, log_lines, exit_via,
                    chatFrame >>

\* lines 263-282: the retry returns
ChatSend2Return ==
    /\ pc = "c_send2"
    /\ UNCHANGED << current_delay, wait_time, start_time, pre, waits_begun, chatFrame >>
    /\ \E o \in SendOutcomes(chat_id_str, message_text) :
        LET r == SendMessageToChat(chat_id_str, message_text, o)
            success == r[1]
            result_msg == r[2]
            it == [iter EXCEPT !.retry = o]
        IN  /\ Observe(o)
            /\ IF success
               THEN /\ success_count' = success_count + 1
                    /\ last_error' = << >>
               ELSE /\ success_count' = success_count
                    /\ last_error' = result_msg
            /\ ChatAfterFailure(result_msg, 1, it)

\* line 282: the delay between two iterations ends
ChatDelayReturn ==
    /\ pc = "c_delay"
    /\ UNCHANGED << success_count, last_error, current_delay, wait_time, start_time,
                    pre, invalid_at, all_delivered, delivered_calls, waits_begun, chatFrame >>
    /\ ChatForHead(i + 1, 0, iter)

(***************************************************************************)
(* spam_all_known_chats: the cyclic loop.                                  *)
(*                                                                         *)
(* The operators below follow the synchronous code from one await to the   *)
(* next.  k carries what the step has done so far: ll, the progress lines  *)
(* logged; it, the iteration observer; cd, current_iter_delay; ws,         *)
(* wait_start.                                                             *)
(***************************************************************************)
massFrame == << inputVars, appVars, logVars >>

Keep == [ll |-> 0, it |-> iter, cd |-> current_delay, ws |-> wait_start]

\* line 348: end_time = start_time + duration_minutes * 60, in ticks; the
\* argument is modelled in the unit that makes one tick
EndTime(st, dm) == st + dm

\* lines 440-448: the summary and the return value; sbt is stopped_by_time,
\* ni the value the loop variable i has at the break
MassFinishAt(ni, sbt, via, k) ==
    /\ pc' = "done"
    /\ i' = ni
    /\ stopped_by_time' = sbt
    /\ exit_via' = via
    /\ ret' = [ok |-> ReturnsSuccess(success_count'), kind |-> "summary", text |-> << >>,
               by_time |-> sbt, attempts |-> total_sent_attempts,
               delivered |-> success_count', failed |-> error_count',
               waits |-> rate_limit_waits', last_error |-> last_error']
    /\ log_lines' = log_lines + k.ll + 1
    /\ iter' = k.it
    /\ current_delay' = k.cd
    /\ wait_start' = k.ws
    /\ UNCHANGED << total_sent_attempts, current_cycle_start_time, calls >>

\* a break inside the iteration of recipient i, or the end of the while loop
MassFinish(sbt, via, k) == MassFinishAt(i, sbt, via, k)

\* lines 364-367: with no bot the function logs one line and returns
MassNoBot(ni, ccst, k) ==
    /\ pc' = "done"
    /\ i' = ni
    /\ ret' = [NoRet EXCEPT !.kind = "no_bot", !.text = R_NO_BOT_MASS]
    /\ exit_via' = "no_bot"
    /\ current_cycle_start_time' = ccst
    /\ log_lines' = log_lines + k.ll + 1
    /\ iter' = k.it
    /\ current_delay' = k.cd
    /\ wait_start' = k.ws
    /\ UNCHANGED << total_sent_attempts, stopped_by_time, calls >>

\* lines 369-370: the attempt for recipient ni begins
MassAttempt(ni, ccst, k) ==
    LET c == IF ReachesTransport(chat_ids_list'[ni + 1], message_text) THEN 1 ELSE 0 IN
    /\ pc' = "m_send1"
    /\ i' = ni
    /\ total_sent_attempts' = total_sent_attempts + 1
    /\ current_cycle_start_time' = ccst
    /\ calls' = calls + c
    /\ iter' = k.it
    /\ log_lines' = log_lines + k.ll
    /\ current_delay' = k.cd
    /\ wait_start' = k.ws
    /\ UNCHANGED << stopped_by_time, ret, exit_via >>

\* a check that lets the attempt begin at the very deadline
ForCheckLate(t, e) == t > e

\* line 359: if time.monotonic() >= end_time
ForCheckExpired(t, e) == t >= e

\* lines 359-370: the deadline check and the bot check before each attempt
MassIterate(ni, ccst, k) ==
    IF ForCheckExpired(now', end_time')
    THEN MassFinishAt(ni, TRUE, "for_check", [k EXCEPT !.ll = @ + 1])
    ELSE IF bot = "none" THEN MassNoBot(ni, ccst, k)
    ELSE MassAttempt(ni, ccst, k)

\* a loop that gives up when less than one minimum cycle remains
WhileStopsEarly(t, e) == t + MinCycleSeconds * TicksPerSecond < e

\* line 354: while time.monotonic() < end_time
WhileContinues(t, e) == t < e

\* lines 354-358: the outer loop's check, and the start of a sweep
MassWhileHead(k) ==
    IF WhileContinues(now', end_time')
    THEN MassIterate(0, now', [k EXCEPT !.ll = @ + 1])
    ELSE MassFinish(FALSE, "while", k)

\* lines 432-437: a sweep is over; the minimum cycle duration
MassAfterFor(k) ==
    LET cycle_duration == now' - current_cycle_start_time IN
    IF cycle_duration < MinCycleSeconds * TicksPerSecond /\ now' < end_time'
    THEN /\ pc' = "m_pad"
         /\ log_lines' = log_lines + k.ll
         /\ iter' = k.it
         /\ current_delay' = k.cd
         /\ wait_start' = k.ws
         /\ UNCHANGED << i, total_sent_attempts, stopped_by_time,
                         current_cycle_start_time, ret, calls, exit_via >>
    ELSE MassWhileHead(k)

\* line 358: the next recipient of the sweep, or the end of the sweep
MassForHead(ni, k) ==
    IF ni < Len(chat_ids_list')
    THEN MassIterate(ni, current_cycle_start_time, k)
    ELSE MassAfterFor(k)

\* lines 424-430: the polled delay between two recipients
MassDelayPoll(k) ==
    IF now' < k.ws + k.cd
    THEN IF now' >= end_time'
         THEN MassFinish(TRUE, "delay_wait", [k EXCEPT !.ll = @ + 1])
         ELSE /\ pc' = "m_delaysleep"
              /\ log_lines' = log_lines + k.ll
              /\ iter' = k.it
              /\ current_delay' = k.cd
              /\ wait_start' = k.ws
              /\ UNCHANGED << i, total_sent_attempts, stopped_by_time,
                              current_cycle_start_time, ret, calls, exit_via >>
    ELSE MassForHead(i + 1, k)

\* lines 417-430: after the outcome is handled
MassPost(k) ==
    IF now' >= end_time'
    THEN MassFinish(TRUE, "post_send", [k EXCEPT !.ll = @ + 1])
    ELSE IF i < Len(chat_ids_list') - 1 /\ k.cd > 0
    THEN MassDelayPoll([k EXCEPT !.ws = now'])
    ELSE MassForHead(i + 1, k)

\* lines 412-415: the token check after a failed first attempt
MassAfterFailure(result_msg, k) ==
    IF TokenInvalid(result_msg)
    THEN MassFinish(TRUE, "fatal", [k EXCEPT !.ll = @ + 1])
    ELSE MassPost(k)

\* lines 385-397: the polled rate-limit wait, then the retry
MassRlPoll(k) ==
    IF now' < k.ws + wait_time' * TicksPerSecond
    THEN IF now' >= end_time'
         THEN MassFinish(TRUE, "rl_wait", [k EXCEPT !.ll = @ + 1])
         ELSE /\ pc' = "m_rlsleep"
              /\ log_lines' = log_lines + k.ll
              /\ iter' = k.it
              /\ current_delay' = k.cd
              /\ wait_start' = k.ws
              /\ UNCHANGED << i, total_sent_attempts, stopped_by_time,
                              current_cycle_start_time, ret, calls, exit_via >>
    ELSE LET c == IF ReachesTransport(chat_ids_list'[i + 1], message_text) THEN 1 ELSE 0 IN
         /\ pc' = "m_send2"
         /\ current_delay' = 0
         /\ log_lines' = log_lines + k.ll + 1
         /\ calls' = calls + c
         /\ iter' = [k.it EXCEPT !.calls = @ + c]
         /\ wait_start' = k.ws
         /\ UNCHANGED << i, total_sent_attempts, stopped_by_time,
                         current_cycle_start_time, ret, exit_via >>

\* a retry that, rate-limited again, waits and retries again
MassRetryAgain(result_msg, k) ==
    IF IsRateLimit(result_msg)
    THEN MassRlPoll([k EXCEPT !.ws = now', !.it.waits = @ + 1])
    ELSE MassAfterFailure(result_msg, k)

\* lines 398-415: after the retry's outcome is recorded, no second wait and
\* no second retry: the token check, then the next recipient
MassAfterRetry(result_msg, k) == MassAfterFailure(result_msg, k)

\* a delivered retry that leaves the failure counted
RetryDeliveredErrorsKept(ec) == ec

\* a delivered retry that takes two failures back
RetryDeliveredErrorsTwice(ec) == ec - 2

\* line 400: error_count -= 1 after a delivered retry
RetryDeliveredErrors(ec) == ec - 1

\* a return value that reports success with no recipient
NoIdsResultOk == [NoRet EXCEPT !.kind = "rejected", !.text = R_NO_IDS, !.ok = TRUE]

\* lines 336-339: the value returned when discovery found no recipient
NoIdsResult == [NoRet EXCEPT !.kind = "rejected", !.text = R_NO_IDS]

\* lines 331-358
MassStart ==
    /\ pc = "m_start"
    /\ now' = now
    /\ UNCHANGED << wait_time, pre, invalid_at, all_delivered, delivered_calls, waits_begun, massFrame >>
    /\ IF chat_ids = {}
       THEN /\ pc' = "done"
            /\ ret' = NoIdsResult
            /\ log_lines' = log_lines + 3
            /\ UNCHANGED << success_count, error_count, rate_limit_waits,
                            total_sent_attempts, start_time, end_time, last_error,
                            stopped_by_time, chat_ids_list, i, current_delay, wait_start,
                            current_cycle_start_time, calls, iter, exit_via >>
       ELSE /\ \E l \in ListsOf(chat_ids) : chat_ids_list' = l
            /\ success_count' = 0
            /\ error_count' = 0
            /\ rate_limit_waits' = 0
            /\ start_time' = now
            /\ end_time' = EndTime(now, duration_minutes)
            /\ last_error' = << >>
            /\ MassWhileHead([Keep EXCEPT !.ll = 3])

\* lines 370-430: the first call for a recipient returns after d ticks
MassSend1Return ==
    /\ pc = "m_send1"
    /\ UNCHANGED << start_time, end_time, chat_ids_list, massFrame >>
    /\ \E o \in SendOutcomes(chat_ids_list[i + 1], message_text) :
       \E d \in 0..(IF o.kind = "none" THEN 0 ELSE MaxSendTicks) :
        LET chat_id == chat_ids_list[i + 1]
            r == SendMessageToChat(chat_id, message_text, o)
            success == r[1]
            result_msg == r[2]
            c == IF ReachesTransport(chat_id, message_text) THEN 1 ELSE 0
            k == [Keep EXCEPT !.cd = delay,
                     !.it = [calls |-> c, waits |-> 0, first |-> o, retry |-> NoOutcome]]
        IN  /\ now' = now + d
            /\ Observe(o)
            /\ pre' = [success |-> success_count, error |-> error_count,
                       waits |-> rate_limit_waits, last_error |-> last_error,
                       lines |-> log_lines]
            /\ IF success
               THEN /\ success_count' = success_count + 1
                    /\ UNCHANGED << error_count, rate_limit_waits, last_error, wait_time,
                                    waits_begun >>
                    /\ MassPost(k)
               ELSE /\ success_count' = success_count
                    /\ error_count' = error_count + 1
                    /\ last_error' = chat_id \o COLON_SPACE \o result_msg
                    /\ IF IsRateLimit(result_msg) /\ WaitParses(result_msg)
                       THEN /\ wait_time' = ParsedWait(result_msg)
                            /\ rate_limit_waits' = rate_limit_waits + 1
                            /\ waits_begun' = waits_begun + 1
                            /\ MassRlPoll([k EXCEPT !.ll = 1, !.ws = now',
                                                    !.it.waits = 1])
                       ELSE /\ UNCHANGED << wait_time, rate_limit_waits, waits_begun >>
                            /\ MassAfterFailure(result_msg,
                                   [k EXCEPT !.ll = IF IsRateLimit(result_msg) THEN 1 ELSE 0])

\* a polling sleep three times as long
PollSleepCoarse(t) == t + 3 * PollTicks

\* lines 390 and 429: await asyncio.sleep(0.1) ends
PollSleep(t) == t + PollTicks

\* line 390: one polling sleep of the rate-limit wait ends
MassRlSleepReturn ==
    /\ pc = "m_rlsleep"
    /\ now' = PollSleep(now)
    /\ UNCHANGED << success_count, error_count, rate_limit_waits, last_error, wait_time,
                    start_time, end_time, chat_ids_list, pre, invalid_at, all_delivered, delivered_calls,
                    waits_begun, massFrame >>
    /\ MassRlPoll(Keep)

\* lines 397-430: the retry returns after d ticks
MassSend2Return ==
    /\ pc = "m_send2"
    /\ UNCHANGED << rate_limit_waits, wait_time, start_time, end_time, chat_ids_list,
                    pre, waits_begun, massFrame >>
    /\ \E o \in SendOutcomes(chat_ids_list[i + 1], message_text) :
       \E d \in 0..(IF o.kind = "none" THEN 0 ELSE MaxSendTicks) :
        LET chat_id == chat_ids_list[i + 1]
            r == SendMessageToChat(chat_id, message_text, o)
            success == r[1]
            result_msg == r[2]
            k == [Keep EXCEPT !.it = [iter EXCEPT !.retry = o], !.ll = 1]
        IN  /\ now' = now + d
            /\ Observe(o)
            /\ IF success
               THEN /\ success_count' = success_count + 1
                    /\ error_count' = RetryDeliveredErrors(error_count)
                    /\ last_error' = << >>
               ELSE /\ UNCHANGED << success_count, error_count >>
                    /\ last_error' = chat_id \o COLON_SPACE \o result_msg
                                       \o SUFFIX_AFTER_WAIT
            /\ MassAfterRetry(result_msg, k)

\* line 429: one polling sleep of the delay between recipients ends
MassDelaySleepReturn ==
    /\ pc = "m_delaysleep"
    /\ now' = PollSleep(now)
    /\ UNCHANGED << success_count, error_count, rate_limit_waits, last_error, wait_time,
                    start_time, end_time, chat_ids_list, pre, invalid_at, all_delivered, delivered_calls,
                    waits_begun, massFrame >>
    /\ MassDelayPoll(Keep)

\* a cycle that is not padded
PadLengthNone(cycle_duration) == 0

\* line 437: 1.0 - cycle_duration, in ticks
PadLength(cycle_duration) == MinCycleSeconds * TicksPerSecond - cycle_duration

\* line 437: asyncio.sleep(1.0 - cycle_duration) ends
MassPadReturn ==
    /\ pc = "m_pad"
    /\ now' = now + PadLength(now - current_cycle_start_time)
    /\ UNCHANGED << success_count, error_count, rate_limit_waits, last_error, wait_time,
                    start_time, end_time, chat_ids_list, pre, invalid_at, all_delivered, delivered_calls,
                    waits_begun, massFrame >>
    /\ MassWhileHead(Keep)

(***************************************************************************)
(* One session of either loop, run on its own.                             *)
(***************************************************************************)
Next ==
    \/ ChatStart
    \/ ChatSend1Return
    \/ ChatRlSleepReturn
    \/ ChatSend2Return
    \/ ChatDelayReturn
    \/ MassStart
    \/ MassSend1Return
    \/ MassRlSleepReturn
    \/ MassSend2Return
    \/ MassDelaySleepReturn
    \/ MassPadReturn

Spec == Init /\ [][Next]_vars

\* every transport call returns and every sleep ends
SpecLive == Spec /\ WF_vars(Next)

(***************************************************************************)
(* Properties of one session.                                              *)
(***************************************************************************)
MassSession == mode = "mass"
ChatSession == mode = "chat"
Summarised == pc = "done" /\ ret.kind = "summary"
\* the states of the cyclic loop in which no first attempt is in flight
MassOutcomeHandled == MassSession /\ pc \in {"m_rlsleep", "m_send2", "m_delaysleep", "m_pad", "done"}

\* C2: in the cyclic loop success_count + error_count = total_sent_attempts
\* whenever the outcome of the latest attempt has been handled (during a
\* rate-limit wait, while the retry is in flight, after the retry, after a
\* deadline break, in the summary); while a first attempt is in flight the
\* attempt is counted and its outcome is not.
C2_Accounting ==
    /\ MassOutcomeHandled => success_count + error_count = total_sent_attempts
    /\ MassSession /\ pc = "m_send1" => success_count + error_count = total_sent_attempts - 1
    /\ MassSession /\ Summarised => ret.delivered + ret.failed = ret.attempts

\* a summary after a delivered retry, with an earlier failure still counted
C2_Witness ==
    /\ MassSession /\ Summarised
    /\ iter.retry.kind = "Delivered"
    /\ ret.failed >= 1 /\ ret.delivered >= 1

\* C3: once a transport call has returned InvalidToken, the session makes no
\* further transport call, and it ends by the fatal stop.
C3_InvalidTokenStops ==
    invalid_at # 0 => /\ calls = invalid_at
                      /\ pc = "done" => exit_via = "fatal"

\* C4: in the cyclic loop no transport call, first attempt or retry, is in
\* flight that started at or after end_time (the clock stands still from
\* the start of a call until its return).
C4_NoSendAfterDeadline ==
    MassSession /\ pc \in {"m_send1", "m_send2"}
        /\ ReachesTransport(chat_ids_list[i + 1], message_text)
    => now < end_time

\* C5: an iteration whose first attempt was rate-limited with retry_after w
\* and whose retry was delivered has made one wait, of w seconds, counts one
\* more delivery, and in the cyclic loop leaves error_count where it was and
\* counts one more rate-limit wait; the cyclic retry starts no earlier than
\* w seconds after the wait began.
C5_RetryDelivered ==
    /\ iter.first.kind = "RetryAfter" /\ iter.retry.kind = "Delivered"
       => /\ success_count = pre.success + 1
          /\ iter.waits = 1 /\ iter.calls = 2
          /\ wait_time = iter.first.retry_after
          /\ MassSession => /\ error_count = pre.error
                            /\ rate_limit_waits = pre.waits + 1
    /\ MassSession /\ pc = "m_send2"
       => /\ wait_time = iter.first.retry_after
          /\ now >= wait_start + wait_time * TicksPerSecond

\* a delivered retry in the cyclic loop after an earlier counted failure
C5_Witness ==
    /\ MassSession
    /\ iter.first.kind = "RetryAfter" /\ iter.retry.kind = "Delivered"
    /\ pre.error >= 1 /\ error_count = pre.error

\* C6: an iteration makes one transport call, or two when the first was
\* rate-limited; it waits at most once; an outcome other than a rate limit
\* is never retried; a rate-limited retry is recorded as the last error and
\* the iteration is over.
C6_AtMostOneRetry ==
    /\ iter.calls <= 2 /\ iter.waits <= 1
    /\ iter.first.kind \notin {"none"} => iter.calls >= 1
    /\ iter.calls = 2 => iter.first.kind = "RetryAfter" /\ iter.waits = 1
    /\ iter.first.kind \in {"Delivered", "BadRequest", "NetworkError", "InvalidToken",
                            "TelegramError", "Exception"}
       => iter.calls = 1 /\ iter.waits = 0 /\ iter.retry.kind = "none"
    /\ pc \in {"c_send2", "m_send2"} => iter.calls = 2 /\ iter.retry.kind = "none"
    /\ iter.retry.kind = "RetryAfter"
       => /\ pc \notin {"c_rlsleep", "m_rlsleep", "c_send2", "m_send2"}
          /\ iter.calls = 2 /\ iter.waits = 1
          /\ Contains(last_error, RATE_LIMIT \o << COLON >> \o IntText(iter.retry.retry_after))
          /\ MassSession => error_count = pre.error + 1

\* a retry that was itself rate-limited
C6_Witness == iter.first.kind = "RetryAfter" /\ iter.retry.kind = "RetryAfter"

\* C7: a single-target session with count > 0 that has a bot to deliver
\* with, and in which every transport call was delivered, returns a summary
\* after count calls, delivers count messages, waits for no rate limit,
\* records no error and returns True.
C7_AllDelivered ==
    /\ ChatSession /\ pc = "done" /\ bot # "none" /\ all_delivered
    /\ SpamChatRejects(chat_id_str, message_text, count, delay) = << >>
    => /\ ret.kind = "summary"
       /\ calls = count
       /\ success_count = count /\ ret.delivered = count /\ ret.attempts = count
       /\ waits_begun = 0
       /\ last_error = << >> /\ ret.failed = 0 /\ ret.last_error = << >>
       /\ ret.ok = TRUE

C7_Witness == ChatSession /\ Summarised /\ all_delivered /\ count >= 2 /\ delay > 0

\* C8: a cyclic session of positive duration that ended because the deadline
\* passed (every exit but the token check) reports stopped_by_time in its
\* summary.
C8_DeadlineReported ==
    MassSession /\ Summarised /\ duration_minutes > 0 /\ exit_via # "fatal" => ret.by_time

\* C9: a cyclic session stopped by the token check is not reported as
\* stopped by the deadline.
C9_FatalNotByTime ==
    MassSession /\ Summarised /\ exit_via = "fatal" => ~ret.by_time

\* C10: spam_chat called with an empty recipient, an empty text, count <= 0
\* or delay < 0 returns failure with the reason of a violated precondition,
\* before any transport call, any progress line and any iteration.
C10_Preconditions ==
    ChatSession /\ pc # "c_start"
        /\ (chat_id_str = << >> \/ message_text = << >> \/ count <= 0 \/ delay < 0)
    => /\ pc = "done" /\ ret.kind = "rejected" /\ ret.ok = FALSE
       /\ calls = 0 /\ log_lines = 0 /\ i = 0 /\ iter = NoIter
       /\ ret.text \in {R_NO_CHAT, R_NO_TEXT, R_COUNT, R_DELAY}
       /\ ret.text = R_NO_CHAT => chat_id_str = << >>
       /\ ret.text = R_NO_TEXT => message_text = << >>
       /\ ret.text = R_COUNT => count <= 0
       /\ ret.text = R_DELAY => delay < 0
       /\ Cardinality({R_NO_CHAT, R_NO_TEXT, R_COUNT, R_DELAY}) = 4

\* a rejection for the delay alone
C10_Witness ==
    /\ ChatSession /\ pc = "done" /\ ret.text = R_DELAY
    /\ chat_id_str # << >> /\ message_text # << >> /\ count > 0

(***************************************************************************)
(* extract_chat_ids_from_log: recipient discovery.  The log file is        *)
(* missing, unreadable, or holds a text; the text is read line by line and *)
(* each line is searched with six regular expressions.  The expressions    *)
(* are matched as Python's re matches them: leftmost start, greedy         *)
(* repetition with backtracking.                                           *)
(***************************************************************************)
\* most tokens in the text of a log file
MaxTokens == 4

\* '\n'
NEWLINE == 10
\* '\r'
RETURN == 13
\* '('
LPAREN == 40
\* ')'
RPAREN == 41
\* the byte 0xD0, which begins a UTF-8 sequence of two bytes, with no byte
\* after it that continues the sequence
INVALID == -1
\* the byte 0xFF, which no UTF-8 sequence holds
STRAY == -2
\* the bytes one read of the text file takes: TextIOWrapper._CHUNK_SIZE
CHUNK_SIZE == 8192

\* "Chat: "
T_CHAT == << 67, 104, 97, 116, 58, 32 >>
\* "Sender: "
T_SENDER == << 83, 101, 110, 100, 101, 114, 58, 32 >>
\* "CallbackQuery: From="
T_CALLBACK == << 67, 97, 108, 108, 98, 97, 99, 107, 81, 117, 101, 114, 121, 58, 32,
    70, 114, 111, 109, 61 >>
\* "12"
T_ID == << 49, 50 >>
\* the Devanagari digit one
T_DIGIT == << 2407 >>
\* " (@al)"
T_HANDLE == << 32, 40, 64, 97, 108, 41 >>
\* "zz"
T_TEXT == << 122, 122 >>

\* "Chat: 12345\nSender: 999 (@alice)\nzz\n": two lines with references and
\* a line with none
EXAMPLE_LOG ==
    << 67, 104, 97, 116, 58, 32, 49, 50, 51, 52, 53 >> \o << NEWLINE >>
    \o << 83, 101, 110, 100, 101, 114, 58, 32, 57, 57, 57, 32, 40, 64, 97, 108, 105, 99, 101, 41 >>
    \o << NEWLINE, 122, 122, NEWLINE >>
\* "12345"
ID_12345 == << 49, 50, 51, 52, 53 >>
\* "999"
ID_999 == << 57, 57, 57 >>
\* "@alice"
HANDLE_ALICE == << 64, 97, 108, 105, 99, 101 >>
\* "@al"
HANDLE_AL == << 64, 97, 108 >>

\* the pieces the text of a log file is made of
LogTokens == {T_CHAT, T_SENDER, T_ID, << MINUS >>, T_HANDLE, T_TEXT, << NEWLINE >>}

RECURSIVE LogTexts(_)
\* the texts of at most n tokens
LogTexts(n) ==
    IF n = 0 THEN {<< >>}
    ELSE LET S == LogTexts(n - 1) IN S \cup {s \o t : s \in S, t \in LogTokens}

\* the elements of a compiled pattern
Lit(c) == [op |-> "lit", c |-> c]
Opt(c) == [op |-> "opt", c |-> c]
Digits == [op |-> "digits", c |-> 0]
NotPlus(c) == [op |-> "not", c |-> c]
Open == [op |-> "open", c |-> 0]
Close == [op |-> "close", c |-> 0]
Lits(t) == [k \in 1..Len(t) |-> Lit(t[k])]

\* \d of a str pattern: the decimal digits of Unicode (category Nd)
IsDecimal(c) == \E z \in DecimalZeros : c \in z..(z + 9)

\* r"Chat: (-?\d+)"
chat_id_pattern == Lits(T_CHAT) \o << Open, Opt(MINUS), Digits, Close >>
\* r"Chat: [^)]+\(@([^)]+)\)"
chat_username_pattern ==
    Lits(T_CHAT) \o << NotPlus(RPAREN), Lit(LPAREN), Lit(AT), Open, NotPlus(RPAREN), Close,
                       Lit(RPAREN) >>
\* r"Sender: (\d+)"
sender_id_pattern == Lits(T_SENDER) \o << Open, Digits, Close >>
\* r"Sender: [^)]+\(@([^)]+)\)"
sender_username_pattern ==
    Lits(T_SENDER) \o << NotPlus(RPAREN), Lit(LPAREN), Lit(AT), Open, NotPlus(RPAREN), Close,
                         Lit(RPAREN) >>
\* r"CallbackQuery: From=(\d+)"
callback_from_id_pattern == Lits(T_CALLBACK) \o << Open, Digits, Close >>
\* r"CallbackQuery: From=[^)]+\(@([^)]+)\)"
callback_from_username_pattern ==
    Lits(T_CALLBACK) \o << NotPlus(RPAREN), Lit(LPAREN), Lit(AT), Open, NotPlus(RPAREN), Close,
                           Lit(RPAREN) >>

\* the character c is in the class of the repetition e
InClass(e, c) == IF e.op = "digits" THEN IsDecimal(c) ELSE c # e.c

\* how many characters of s from position p on are in the class of e
RunLen(e, s, p) ==
    LET Stops == {k \in p..Len(s) : ~InClass(e, s[k])} IN
    IF Stops = {} THEN Len(s) - p + 1
    ELSE (CHOOSE k \in Stops : \A j \in Stops : k <= j) - p

NoMatch == [ok |-> FALSE, from |-> 0, to |-> 0]

RECURSIVE MatchAt(_, _, _, _, _, _)
\* the first way, in the order re tries them, to match the elements of pat
\* from the k-th on against s from position p on; the group opened at a
\* and closed at b
MatchAt(pat, k, s, p, a, b) ==
    IF k > Len(pat) THEN [ok |-> TRUE, from |-> a, to |-> b]
    ELSE LET e == pat[k] IN
         CASE e.op = "lit" ->
                IF p <= Len(s) /\ s[p] = e.c THEN MatchAt(pat, k + 1, s, p + 1, a, b)
                ELSE NoMatch
           [] e.op = "opt" ->
                LET r == IF p <= Len(s) /\ s[p] = e.c
                         THEN MatchAt(pat, k + 1, s, p + 1, a, b) ELSE NoMatch
                IN  IF r.ok THEN r ELSE MatchAt(pat, k + 1, s, p, a, b)
           [] e.op = "open" -> MatchAt(pat, k + 1, s, p, p, b)
           [] e.op = "close" -> MatchAt(pat, k + 1, s, p, a, p)
           [] OTHER ->
                \* a greedy repetition: the longest run that lets the rest match
                LET Good == {n \in 1..RunLen(e, s, p) :
                                MatchAt(pat, k + 1, s, p + n, a, b).ok}
                IN  IF Good = {} THEN NoMatch
                    ELSE MatchAt(pat, k + 1, s,
                                 p + (CHOOSE n \in Good : \A m \in Good : m <= n), a, b)

\* pattern.search(line): the match at the leftmost position that has one
Search(pat, s) ==
    LET Starts == {p \in 1..Len(s) : MatchAt(pat, 1, s, p, 0, 0).ok} IN
    IF Starts = {} THEN NoMatch
    ELSE MatchAt(pat, 1, s, CHOOSE p \in Starts : \A q \in Starts : p <= q, 0, 0)

\* match.group(1)
Group1(s, m) == SubSeq(s, m.from, m.to - 1)

\* if match: chat_ids.add(match.group(1))
IdOf(pat, line) ==
    LET match == Search(pat, line) IN IF match.ok THEN {Group1(line, match)} ELSE {}

\* if match: chat_ids.add(f"@{match.group(1)}")
UsernameOf(pat, line) ==
    LET match == Search(pat, line) IN
    IF match.ok THEN {<< AT >> \o Group1(line, match)} ELSE {}

\* lines 310-324: what one line adds to chat_ids
LineIds(line) ==
    IdOf(chat_id_pattern, line) \cup UsernameOf(chat_username_pattern, line)
    \cup IdOf(sender_id_pattern, line) \cup UsernameOf(sender_username_pattern, line)
    \cup IdOf(callback_from_id_pattern, line)
    \cup UsernameOf(callback_from_username_pattern, line)

RECURSIVE LinesFrom(_, _)
\* for line in f, the file opened in text mode: '\n', '\r\n' and '\r' each
\* end a line and are read as '\n'; the last line may have no end
LinesFrom(s, p) ==
    IF p > Len(s) THEN << >>
    ELSE LET N == {k \in p..Len(s) : s[k] \in {NEWLINE, RETURN}} IN
         IF N = {} THEN << SubSeq(s, p, Len(s)) >>
         ELSE LET e == CHOOSE k \in N : \A j \in N : k <= j
                  n == IF s[e] = RETURN /\ e < Len(s) /\ s[e + 1] = NEWLINE
                       THEN e + 2 ELSE e + 1
              IN  << SubSeq(s, p, e - 1) \o << NEWLINE >> >> \o LinesFrom(s, n)

Lines(s) == LinesFrom(s, 1)

\* the characters of s that take more than one byte in UTF-8
Wide(s) == {j \in 1..Len(s) : s[j] >= 128}

\* the bytes of the first k characters of s, W the wide characters of s
ByteOffset(s, W, k) ==
    k + Cardinality({j \in W : j <= k})
      + Cardinality({j \in W : j <= k /\ s[j] >= 2048})
      + Cardinality({j \in W : j <= k /\ s[j] >= 65536})

\* the reads that return bytes; the read after them finds the end of the
\* file
DataReads(s) == (ByteOffset(s, Wide(s), Len(s)) + CHUNK_SIZE - 1) \div CHUNK_SIZE

\* the bytes of s that are not UTF-8
Bad(s) == {k \in 1..Len(s) : s[k] \in {INVALID, STRAY}}

\* the text cannot be decoded as UTF-8
Undecodable(s) == Bad(s) # {}

\* the read, counted from 0, that raises UnicodeDecodeError for the bad
\* byte at k: the read that holds a stray byte, the read that holds the
\* byte after a cut sequence, and for a cut sequence at the end of the file
\* the read that finds the end
RaisingRead(s, W, k) ==
    IF s[k] = STRAY THEN ByteOffset(s, W, k - 1) \div CHUNK_SIZE
    ELSE IF k < Len(s) THEN ByteOffset(s, W, k) \div CHUNK_SIZE
    ELSE DataReads(s)

\* the first read that raises
FirstRaise(s) ==
    LET W == Wide(s)
        R == {RaisingRead(s, W, k) : k \in Bad(s)}
    IN  CHOOSE r \in R : \A q \in R : r <= q

\* the text decoded by the reads before the one that raises: the
\* characters whose bytes those reads hold
Decoded(s) ==
    LET W == Wide(s)
        limit == FirstRaise(s) * CHUNK_SIZE
        K == {k \in 1..Len(s) : s[k] >= 0 /\ ByteOffset(s, W, k) <= limit}
    IN  SubSeq(s, 1, Cardinality(K))

\* the lines of t that are ended in t; a '\r' at the end of t is held back
\* until the next read tells whether a '\n' follows
CompleteLines(t) ==
    LET held == IF t # << >> /\ t[Len(t)] = RETURN THEN SubSeq(t, 1, Len(t) - 1) ELSE t
        L == Lines(held)
    IN  IF held = << >> THEN << >>
        ELSE IF held[Len(held)] \in {NEWLINE, RETURN} THEN L
        ELSE SubSeq(L, 1, Len(L) - 1)

\* the lines `for line in f` gives before the file ends or a read raises
ReadLines(s) == IF Undecodable(s) THEN CompleteLines(Decoded(s)) ELSE Lines(s)

\* except Exception as e: OSError and UnicodeDecodeError derive from it
ExceptException(e) == e \in {"OSError", "UnicodeDecodeError"}

\* lines 307-329: the exception e is caught and logged, then the function
\* returns chat_ids; an exception that is not caught leaves the function
AfterException(e) == IF ExceptException(e) THEN "x_returned" ELSE "x_raised"

logFrame == << chat_id_str, message_text, count, delay, duration_minutes, localVars, now,
               ret, obsVars, appVars >>

\* the file with its text cut to nothing, as open(..., 'w') leaves it
OpenedForWriting(log) == [log EXCEPT !.text = << >>]

\* open(RECEIVED_DATA_LOG, 'r', ...) leaves the file as it is
OpenedForReading(log) == log

\* lines 294-309: chat_ids = set(), the test of exists(), then open(), which
\* gives a handle at the start of the file, and the first read
extract_chat_ids_from_log ==
    /\ mode = "log" /\ pc = "x_start"
    /\ chat_ids' = {}
    /\ lines_read' = 0
    /\ received_data_log' = IF received_data_log.state = "file"
                            THEN OpenedForReading(received_data_log)
                            ELSE received_data_log
    /\ pc' = CASE received_data_log.state = "missing" -> "x_returned"
               [] received_data_log.state = "unreadable" -> AfterException("OSError")
               [] /\ Undecodable(received_data_log.text)
                  /\ FirstRaise(received_data_log.text) = 0
                    -> AfterException("UnicodeDecodeError")
               [] OTHER -> "x_lines"
    /\ UNCHANGED << mode, runs, first_result, first_log, updates, transport_text,
                    app_log_callback, logFrame >>

\* lines 309-324: one turn of the loop over the lines
extract_line ==
    /\ mode = "log" /\ pc = "x_lines"
    /\ LET L == ReadLines(received_data_log.text) IN
        /\ lines_read < Len(L)
        /\ chat_ids' = chat_ids \cup LineIds(L[lines_read + 1])
    /\ lines_read' = lines_read + 1
    /\ UNCHANGED << mode, pc, received_data_log, runs, first_result, first_log, updates,
                    transport_text, app_log_callback, logFrame >>

\* lines 309 and 324-329: the file is at its end, or the next read raises
\* UnicodeDecodeError
extract_return ==
    /\ mode = "log" /\ pc = "x_lines"
    /\ lines_read = Len(ReadLines(received_data_log.text))
    /\ pc' = IF Undecodable(received_data_log.text)
             THEN AfterException("UnicodeDecodeError") ELSE "x_returned"
    /\ UNCHANGED << mode, chat_ids, logVars, logFrame >>

\* the caller keeps what the first call returned, and the file as it is
\* then, and calls again
extract_again ==
    /\ mode = "log" /\ pc = "x_returned" /\ runs = 1
    /\ first_result' = chat_ids
    /\ first_log' = received_data_log
    /\ runs' = 2
    /\ pc' = "x_start"
    /\ UNCHANGED << mode, chat_ids, received_data_log, lines_read, updates, transport_text,
                    app_log_callback, logFrame >>

\* "2026-10-29 01:02:03": time.strftime('%Y-%m-%d %H:%M:%S')
TS == << 50, 48, 50, 54, 45, 49, 48, 45, 50, 57, 32, 48, 49, 58, 48, 50, 58, 48, 51 >>
\* " - "
F_DASH == << 32, 45, 32 >>

\* lines 52-58: log_received_data appends "<time> - <entry>\n" to the file
LogReceivedData(log, log_line) ==
    [state |-> "file", text |-> log.text \o TS \o F_DASH \o log_line \o << NEWLINE >>]

\* the entry written between the two calls: "Chat: 999"
WrittenLines == {T_CHAT \o ID_999}

\* lines 52-58: log_received_data is called between the two calls of
\* discovery, once, and appends an entry to the file; open(..., 'a') makes
\* the file if there is none
log_received_data_between ==
    /\ mode = "log" /\ pc = "x_start" /\ runs = 2
    /\ received_data_log = first_log /\ received_data_log.state # "unreadable"
    /\ \E log_line \in WrittenLines :
        received_data_log' = LogReceivedData(received_data_log, log_line)
    /\ UNCHANGED << mode, pc, chat_ids, lines_read, runs, first_result, first_log, updates,
                    transport_text, app_log_callback, logFrame >>

\* texts with a callback reference in them
CallbackTexts == {s \o T_CALLBACK \o t : s \in LogTexts(1), t \in LogTexts(2)}

\* texts with a decimal digit in them that is not one of '0' to '9'
DigitTexts == {s \o T_DIGIT \o t : s \in LogTexts(2), t \in LogTexts(1)}

\* texts with a '\r' in them
ReturnTexts == {s \o << RETURN >> \o t : s \in LogTexts(2), t \in LogTexts(1)}

\* texts with a byte in them that is not UTF-8, in the middle or at the end
UndecodableTexts ==
    {s \o << b >> \o t : s \in LogTexts(2), b \in {INVALID, STRAY}, t \in LogTexts(1)}

\* "Chat: 12\nSender: 999zz...": the second line ends in the second read
\* of the file, after it a stray byte; and the same with the line ended and
\* a cut sequence at the end of the file
CHUNK_TEXT ==
    T_CHAT \o T_ID \o << NEWLINE >> \o T_SENDER \o ID_999 \o [k \in 1..CHUNK_SIZE |-> 122]
ChunkTexts == {CHUNK_TEXT \o << STRAY >>, CHUNK_TEXT \o << NEWLINE, INVALID >>}

\* "Chat: 12\n" and a cut sequence or a stray byte after it, and a stray
\* byte in the line before "Chat: 12"
CutTexts ==
    {T_CHAT \o T_ID \o << NEWLINE, INVALID >>, T_CHAT \o T_ID \o << NEWLINE, STRAY >>,
     << STRAY, NEWLINE >> \o T_CHAT \o T_ID}

\* the log file: missing, present but not readable, or a file with a text
LogFiles ==
    {[state |-> s, text |-> << >>] : s \in {"missing", "unreadable"}}
    \cup {[state |-> "file", text |-> t] :
             t \in LogTexts(MaxTokens) \cup CallbackTexts \cup DigitTexts
                   \cup ReturnTexts \cup UndecodableTexts \cup ChunkTexts
                   \cup CutTexts
                   \cup {EXAMPLE_LOG}}

\* a call of extract_chat_ids_from_log()
InitLog ==
    /\ mode = "log" /\ pc = "x_start"
    /\ received_data_log \in LogFiles
    /\ lines_read = 0 /\ runs = 1
    /\ first_result = {} /\ first_log = NoLog
    /\ updates = << >> /\ transport_text = << >> /\ app_log_callback = FALSE
    /\ chat_id_str = << >> /\ message_text = << >> /\ count = 0 /\ delay = 0
    /\ duration_minutes = 0 /\ chat_ids = {}
    /\ LocalsInit /\ AppIdle

NextLog ==
    \/ extract_chat_ids_from_log
    \/ extract_line
    \/ extract_return
    \/ extract_again
    \/ log_received_data_between

SpecLog == InitLog /\ [][NextLog]_vars

(***************************************************************************)
(* The writers of the received-data log: get_and_log_updates writes one    *)
(* line for every update it receives, send_message_to_chat one line for a  *)
(* message it delivered outside a session.  log_received_data puts the     *)
(* time before the entry and a '\n' after it.                              *)
(***************************************************************************)
\* most updates one call of bot.get_updates returns
MaxUpdates == 1

\* the cap of an echoed message body: message_text[:150]
TEXT_CAP == 150

\* "INCOMING; UpdateID: "
F_INCOMING == << 73, 78, 67, 79, 77, 73, 78, 71, 59, 32, 85, 112, 100, 97, 116, 101, 73, 68, 58,
    32 >>
\* "OUTGOING; "
F_OUTGOING == << 79, 85, 84, 71, 79, 73, 78, 71, 59, 32 >>
\* "; "
F_SEP == << 59, 32 >>
\* " ("
F_OPEN == << 32, 40 >>
\* " (@"
F_OPEN_AT == << 32, 40, 64 >>
\* "Private"
F_PRIVATE == << 80, 114, 105, 118, 97, 116, 101 >>
\* "NoUsername"
F_NOUSERNAME == << 78, 111, 85, 115, 101, 114, 110, 97, 109, 101 >>
\* "?"
F_QUESTION == << 63 >>
\* "Content: Text: '"
F_CONTENT_TEXT == << 67, 111, 110, 116, 101, 110, 116, 58, 32, 84, 101, 120, 116, 58, 32, 39 >>
\* "'"
F_QUOTE == << 39 >>
\* "), Data='"
F_DATA == << 41, 44, 32, 68, 97, 116, 97, 61, 39 >>
\* "', MsgID="
F_MSGID == << 39, 44, 32, 77, 115, 103, 73, 68, 61 >>
\* "..."
ELLIPSIS == << 46, 46, 46 >>
\* "None"
F_NONE == << 78, 111, 110, 101 >>
\* "N/A"
F_NA == << 78, 47, 65 >>
\* "Sticker: ID="
F_STICKER == << 83, 116, 105, 99, 107, 101, 114, 58, 32, 73, 68, 61 >>
\* ", Emoji="
F_EMOJI == << 44, 32, 69, 109, 111, 106, 105, 61 >>
\* "Photo: ID="
F_PHOTO == << 80, 104, 111, 116, 111, 58, 32, 73, 68, 61 >>
\* ", Size="
F_SIZE == << 44, 32, 83, 105, 122, 101, 61 >>
\* "x"
F_X == << 120 >>
\* ", FileSize="
F_FILESIZE == << 44, 32, 70, 105, 108, 101, 83, 105, 122, 101, 61 >>
\* "Document: Name='"
F_DOCUMENT == << 68, 111, 99, 117, 109, 101, 110, 116, 58, 32, 78, 97, 109, 101, 61, 39 >>
\* "', MIME="
F_MIME == << 39, 44, 32, 77, 73, 77, 69, 61 >>
\* ", ID="
F_ID == << 44, 32, 73, 68, 61 >>
\* "Audio: Name='"
F_AUDIO == << 65, 117, 100, 105, 111, 58, 32, 78, 97, 109, 101, 61, 39 >>
\* "', Title='"
F_TITLE == << 39, 44, 32, 84, 105, 116, 108, 101, 61, 39 >>
\* "', Performer='"
F_PERFORMER == << 39, 44, 32, 80, 101, 114, 102, 111, 114, 109, 101, 114, 61, 39 >>
\* "Video: Name='"
F_VIDEO == << 86, 105, 100, 101, 111, 58, 32, 78, 97, 109, 101, 61, 39 >>
\* "Voice: MIME="
F_VOICE == << 86, 111, 105, 99, 101, 58, 32, 77, 73, 77, 69, 61 >>
\* "Other message type"
F_OTHER == << 79, 116, 104, 101, 114, 32, 109, 101, 115, 115, 97, 103, 101, 32, 116, 121,
    112, 101 >>
\* "Content: "
F_CONTENT == << 67, 111, 110, 116, 101, 110, 116, 58, 32 >>
\* "Edited Message: ChatID="
F_EDITED == << 69, 100, 105, 116, 101, 100, 32, 77, 101, 115, 115, 97, 103, 101, 58, 32, 67,
    104, 97, 116, 73, 68, 61 >>
\* ", MsgID="
F_COMMA_MSGID == << 44, 32, 77, 115, 103, 73, 68, 61 >>
\* "Unknown update type: "
F_UNKNOWN == << 85, 110, 107, 110, 111, 119, 110, 32, 117, 112, 100, 97, 116, 101, 32, 116,
    121, 112, 101, 58, 32 >>
\* "Залогировано "
U_LOGGED == << 1047, 1072, 1083, 1086, 1075, 1080, 1088, 1086, 1074, 1072, 1085, 1086, 32 >>
\* " обновлений в bot_logs/received_data.log."
U_LOGGED_IN == << 32, 1086, 1073, 1085, 1086, 1074, 1083, 1077, 1085, 1080, 1081, 32, 1074,
    32, 98, 111, 116, 95, 108, 111, 103, 115, 47, 114, 101, 99, 101, 105, 118, 101, 100, 95,
    100, 97, 116, 97, 46, 108, 111, 103, 46 >>
\* "Новых обновлений (сообщений/файлов и т.д.) нет."
U_NONE == << 1053, 1086, 1074, 1099, 1093, 32, 1086, 1073, 1085, 1086, 1074, 1083, 1077,
    1085, 1080, 1081, 32, 40, 1089, 1086, 1086, 1073, 1097, 1077, 1085, 1080, 1081, 47,
    1092, 1072, 1081, 1083, 1086, 1074, 32, 1080, 32, 1090, 46, 1076, 46, 41, 32, 1085,
    1077, 1090, 46 >>
\* "Ошибка! Токен недействительный."
U_TOKEN == << 1054, 1096, 1080, 1073, 1082, 1072, 33, 32, 1058, 1086, 1082, 1077, 1085, 32,
    1085, 1077, 1076, 1077, 1081, 1089, 1090, 1074, 1080, 1090, 1077, 1083, 1100, 1085,
    1099, 1081, 46 >>
\* "Ошибка при получении/логировании обновлений: "
U_TELEGRAM == << 1054, 1096, 1080, 1073, 1082, 1072, 32, 1087, 1088, 1080, 32, 1087, 1086,
    1083, 1091, 1095, 1077, 1085, 1080, 1080, 47, 1083, 1086, 1075, 1080, 1088, 1086, 1074,
    1072, 1085, 1080, 1080, 32, 1086, 1073, 1085, 1086, 1074, 1083, 1077, 1085, 1080, 1081,
    58, 32 >>
\* "Непредвиденная ошибка при получении/логировании обновлений: "
U_UNEXPECTED == << 1053, 1077, 1087, 1088, 1077, 1076, 1074, 1080, 1076, 1077, 1085, 1085,
    1072, 1103, 32, 1086, 1096, 1080, 1073, 1082, 1072, 32, 1087, 1088, 1080, 32, 1087,
    1086, 1083, 1091, 1095, 1077, 1085, 1080, 1080, 47, 1083, 1086, 1075, 1080, 1088, 1086,
    1074, 1072, 1085, 1080, 1080, 32, 1086, 1073, 1085, 1086, 1074, 1083, 1077, 1085, 1080,
    1081, 58, 32 >>
\* "'NoneType' object has no attribute 'id'"
E_NO_ID == << 39, 78, 111, 110, 101, 84, 121, 112, 101, 39, 32, 111, 98, 106, 101, 99, 116,
    32, 104, 97, 115, 32, 110, 111, 32, 97, 116, 116, 114, 105, 98, 117, 116, 101, 32, 39,
    105, 100, 39 >>
\* " Проверь ID/юзернейм и права бота."
MSG_CHECK_ID == << 32, 1055, 1088, 1086, 1074, 1077, 1088, 1100, 32, 73, 68, 47, 1102, 1079,
    1077, 1088, 1085, 1077, 1081, 1084, 32, 1080, 32, 1087, 1088, 1072, 1074, 1072, 32,
    1073, 1086, 1090, 1072, 46 >>
\* "{'update_id': 1}"
DICT_1 == << 123, 39, 117, 112, 100, 97, 116, 101, 95, 105, 100, 39, 58, 32, 49, 125 >>
\* "S1"
ID_S1 == << 83, 49 >>
\* "P1"
ID_P1 == << 80, 49 >>
\* "D1"
ID_D1 == << 68, 49 >>
\* "A1"
ID_A1 == << 65, 49 >>
\* "V1"
ID_V1 == << 86, 49 >>
\* "O1"
ID_O1 == << 79, 49 >>
\* "a.txt"
NAME_FILE == << 97, 46, 116, 120, 116 >>
\* "text/plain"
MIME_TEXT == << 116, 101, 120, 116, 47, 112, 108, 97, 105, 110 >>
\* "🙂"
EMOJI == << 128578 >>
\* "Chat: 555": a message body that reads like a chat reference
BODY_CHAT == << 67, 104, 97, 116, 58, 32, 53, 53, 53 >>
\* "Sender: 42 (@x)": a message body that reads like a sender reference
BODY_SENDER == << 83, 101, 110, 100, 101, 114, 58, 32, 52, 50, 32, 40, 64, 120, 41 >>
\* "al": a username
NAME_AL == << 97, 108 >>
\* "T": the title of a group chat
TITLE_T == << 84 >>

\* a body of exactly TEXT_CAP characters, and one of a character more
CAP_TEXT == [k \in 1..TEXT_CAP |-> 97]
LONG_TEXT == [k \in 1..(TEXT_CAP + 1) |-> 97]

\* the message bodies and callback data of the updates
Bodies == {TEXT_HI, BODY_CHAT, BODY_SENDER, CAP_TEXT, LONG_TEXT}

\* None, where the code reads a text
None == << -3 >>
\* None, where the code reads an object
NoObject == [none |-> TRUE]

\* a text as an `if` or an `or` takes it: None and '' are false
Truthy(x) == x \notin {<< >>, None}

\* a or b, for texts
Or(a, b) == IF Truthy(a) THEN a ELSE b

\* f"{x}" for a text or None
Str(x) == IF x = None THEN F_NONE ELSE x

\* f"{n or 'N/A'}" for a file size; 0 stands for None as well
SizeOr(n) == IF n = 0 THEN F_NA ELSE IntText(n)

\* the users: al, and a user with no username
Users == {[id |-> 7, username |-> NAME_AL], [id |-> 9, username |-> None]}

\* the user a chat's from_user stands for
UserOf(n) == IF n = 1 THEN [id |-> 7, username |-> NAME_AL]
             ELSE [id |-> 9, username |-> None]

\* a chat with the user that writes in it: the private chat of a user with a
\* username, a group with a title, the private chat of a user with none
Chats ==
    {[id |-> 7, title |-> None, username |-> NAME_AL, from_user |-> 1],
     [id |-> -5, title |-> TITLE_T, username |-> None, from_user |-> 2],
     [id |-> 9, title |-> None, username |-> None, from_user |-> 2]}

\* a message of the user from_user in the chat c with the text, and nothing
\* else in it
TextMessage(c, from_user, text) ==
    [message_id |-> 3, chat |-> [id |-> c.id, title |-> c.title, username |-> c.username],
     from_user |-> from_user, text |-> text, sticker |-> NoObject, photo |-> << >>,
     document |-> NoObject, audio |-> NoObject, video |-> NoObject, voice |-> NoObject]

\* a message of al in the private chat 7 with no text
Bare == TextMessage([id |-> 7, title |-> None, username |-> NAME_AL], UserOf(1), None)

\* the messages with no text: a sticker, a photo in two sizes, a document,
\* an audio, a video, a voice, a sticker with a photo, a message with none
\* of them, and one whose text is ''
MediaMessages ==
    {[Bare EXCEPT !.sticker = [file_id |-> ID_S1, emoji |-> EMOJI]],
     [Bare EXCEPT !.sticker = [file_id |-> ID_S1, emoji |-> None]],
     [Bare EXCEPT !.photo = << [file_id |-> ID_O1, width |-> 1, height |-> 2, file_size |-> 5],
                               [file_id |-> ID_P1, width |-> 10, height |-> 20,
                                file_size |-> 0] >>],
     [Bare EXCEPT !.document = [file_name |-> NAME_FILE, mime_type |-> MIME_TEXT,
                                file_id |-> ID_D1, file_size |-> 3]],
     [Bare EXCEPT !.audio = [file_name |-> None, title |-> TITLE_T, performer |-> None,
                             mime_type |-> None, file_id |-> ID_A1, file_size |-> 0]],
     [Bare EXCEPT !.video = [file_name |-> NAME_FILE, mime_type |-> None,
                             file_id |-> ID_V1, file_size |-> 12]],
     [Bare EXCEPT !.voice = [mime_type |-> None, file_id |-> ID_O1, file_size |-> 0]],
     [Bare EXCEPT !.sticker = [file_id |-> ID_S1, emoji |-> EMOJI],
                  !.document = [file_name |-> NAME_FILE, mime_type |-> MIME_TEXT,
                                file_id |-> ID_D1, file_size |-> 3]],
     Bare,
     [Bare EXCEPT !.text = << >>]}

\* a message with no sender: msg.from_user is None
NO_SENDER == [Bare EXCEPT !.from_user = NoObject, !.text = TEXT_HI]

\* the update with the id n that holds nothing
NoUpdate(n) ==
    [update_id |-> n, message |-> NoObject, edited_message |-> NoObject,
     callback_query |-> NoObject, to_dict |-> DICT_1]

\* the updates bot.get_updates may return: messages with a text, messages
\* without, a message with no sender, an edited message, callback queries
\* with and without a message and data, and an update of another type
Updates ==
    {[NoUpdate(1) EXCEPT !.message = TextMessage(c, UserOf(c.from_user), b)] :
        c \in Chats, b \in Bodies}
    \cup {[NoUpdate(1) EXCEPT !.message = m] : m \in MediaMessages \cup {NO_SENDER}}
    \cup {[NoUpdate(1) EXCEPT !.edited_message = [chat_id |-> 7, message_id |-> 3]]}
    \cup {[NoUpdate(1) EXCEPT !.callback_query =
              [from_user |-> u, data |-> b, message |-> [message_id |-> 3]]] :
             u \in Users, b \in Bodies \cup {None}}
    \cup {[NoUpdate(1) EXCEPT !.callback_query =
              [from_user |-> UserOf(1), data |-> TEXT_HI, message |-> NoObject]]}
    \cup {NoUpdate(1)}

RECURSIVE Batches(_)
\* the lists of at most n updates
Batches(n) ==
    IF n = 0 THEN {<< >>}
    ELSE LET S == Batches(n - 1) IN S \cup {Append(s, u) : s \in S, u \in Updates}

\* a message with a text from al in the private chat 7
UPDATE_AL ==
    [NoUpdate(1) EXCEPT !.message =
        TextMessage([id |-> 7, title |-> None, username |-> NAME_AL], UserOf(1), TEXT_HI)]

\* a document from al
UPDATE_FILE ==
    [NoUpdate(1) EXCEPT !.message =
        [Bare EXCEPT !.document = [file_name |-> NAME_FILE, mime_type |-> MIME_TEXT,
                                   file_id |-> ID_D1, file_size |-> 3]]]

\* the lists of updates of a length the bound does not reach: a message with
\* no sender after a message and after a document, and a list of more
\* updates than the 10 the result names one by one
LongBatches ==
    {<< UPDATE_AL, [NoUpdate(1) EXCEPT !.message = NO_SENDER] >>,
     << UPDATE_FILE, [NoUpdate(1) EXCEPT !.message = NO_SENDER], UPDATE_AL >>,
     [k \in 1..12 |-> IF k = 12 THEN UPDATE_FILE ELSE UPDATE_AL]}

\* the body echoed whole, whatever its length
EchoedWhole(text) == text

\* lines 175 and 475: text[:150] and the marker of a longer text
Echoed(text) ==
    IF Len(text) > TEXT_CAP THEN SubSeq(text, 1, TEXT_CAP) \o ELLIPSIS ELSE text

\* lines 474-499: content_info after "Content: ", by the first of text,
\* sticker, photo, document, audio, video and voice the message has
ContentInfo(msg) ==
    IF Truthy(msg.text) THEN F_CONTENT_TEXT \o Echoed(msg.text) \o F_QUOTE
    ELSE F_CONTENT \o
    (IF msg.sticker # NoObject
     THEN F_STICKER \o Str(msg.sticker.file_id) \o F_EMOJI \o Str(msg.sticker.emoji)
     ELSE IF msg.photo # << >>
     THEN LET photo == msg.photo[Len(msg.photo)] IN
          F_PHOTO \o Str(photo.file_id) \o F_SIZE \o IntText(photo.width) \o F_X
          \o IntText(photo.height) \o F_FILESIZE \o SizeOr(photo.file_size)
     ELSE IF msg.document # NoObject
     THEN LET doc == msg.document IN
          F_DOCUMENT \o Str(doc.file_name) \o F_MIME \o Str(doc.mime_type)
          \o F_ID \o Str(doc.file_id) \o F_FILESIZE \o SizeOr(doc.file_size)
     ELSE IF msg.audio # NoObject
     THEN LET audio == msg.audio IN
          F_AUDIO \o Str(audio.file_name) \o F_TITLE \o Str(audio.title)
          \o F_PERFORMER \o Str(audio.performer) \o F_MIME \o Str(audio.mime_type)
          \o F_ID \o Str(audio.file_id) \o F_FILESIZE \o SizeOr(audio.file_size)
     ELSE IF msg.video # NoObject
     THEN LET video == msg.video IN
          F_VIDEO \o Str(video.file_name) \o F_MIME \o Str(video.mime_type)
          \o F_ID \o Str(video.file_id) \o F_FILESIZE \o SizeOr(video.file_size)
     ELSE IF msg.voice # NoObject
     THEN LET voice == msg.voice IN
          F_VOICE \o Str(voice.mime_type) \o F_ID \o Str(voice.file_id)
          \o F_FILESIZE \o SizeOr(voice.file_size)
     ELSE F_OTHER)

\* lines 472-497: file_logged, set by the branches of a photo, a document,
\* an audio, a video and a voice
FileLogged(msg) ==
    /\ ~Truthy(msg.text) /\ msg.sticker = NoObject
    /\ \/ msg.photo # << >> \/ msg.document # NoObject \/ msg.audio # NoObject
       \/ msg.video # NoObject \/ msg.voice # NoObject

\* lines 464-502: the entry of a message that has a sender
MessageEntry(u) ==
    LET msg == u.message IN
    F_INCOMING \o IntText(u.update_id) \o F_SEP
    \o T_CHAT \o IntText(msg.chat.id) \o F_OPEN
    \o Or(msg.chat.title, Or(msg.chat.username, F_PRIVATE)) \o << RPAREN >> \o F_SEP
    \o T_SENDER \o IntText(msg.from_user.id) \o F_OPEN_AT
    \o Or(msg.from_user.username, F_NOUSERNAME) \o << RPAREN >> \o F_SEP
    \o ContentInfo(msg)

\* lines 464 and 507-509: the entry of an edited message
EditedEntry(u) ==
    F_INCOMING \o IntText(u.update_id) \o F_SEP
    \o F_EDITED \o IntText(u.edited_message.chat_id)
    \o F_COMMA_MSGID \o IntText(u.edited_message.message_id)

\* lines 464 and 511-514: the entry of a callback query
CallbackEntry(u) ==
    LET q == u.callback_query IN
    F_INCOMING \o IntText(u.update_id) \o F_SEP
    \o T_CALLBACK \o IntText(q.from_user.id) \o F_OPEN_AT
    \o Or(q.from_user.username, F_QUESTION) \o F_DATA \o Str(q.data)
    \o F_MSGID \o (IF q.message # NoObject THEN IntText(q.message.message_id)
                   ELSE F_QUESTION)

\* lines 464 and 516-518: the entry of an update of another type
UnknownEntry(u) ==
    F_INCOMING \o IntText(u.update_id) \o F_SEP \o F_UNKNOWN \o u.to_dict

\* lines 464-519: the entry of an update, by the first of message,
\* edited_message and callback_query it holds
UpdateEntry(u) ==
    IF u.message # NoObject THEN MessageEntry(u)
    ELSE IF u.edited_message # NoObject THEN EditedEntry(u)
    ELSE IF u.callback_query # NoObject THEN CallbackEntry(u)
    ELSE UnknownEntry(u)

\* line 470 raises AttributeError: the message has no sender
Raises(u) == u.message # NoObject /\ u.message.from_user = NoObject

\* the updates the loop of line 463 handles: all of them, or those before
\* the first that raises
Handled(us) ==
    LET R == {k \in 1..Len(us) : Raises(us[k])} IN
    IF R = {} THEN Len(us) ELSE (CHOOSE k \in R : \A j \in R : k <= j) - 1

\* the messages, among the updates handled, for which line 505 calls
\* app_log_callback
FileCallbacks(us) ==
    Cardinality({k \in 1..Handled(us) :
                    us[k].message # NoObject /\ FileLogged(us[k].message)})

\* lines 526-530: a call for each of the first 10 of log_lines, and one more
\* for the rest
SummaryCallbacks(n) == IF n > 10 THEN 11 ELSE n

\* the calls of app_log_callback a call of get_and_log_updates makes for
\* the updates us
CallbackCalls(us) ==
    IF us = << >> THEN 0
    ELSE IF Handled(us) < Len(us) THEN FileCallbacks(us) + 1
    ELSE FileCallbacks(us) + SummaryCallbacks(Len(us))

\* lines 170-176: the entry of a delivered message
OutgoingEntry(chat, text) ==
    F_OUTGOING \o T_CHAT \o ProcessedChatId(chat) \o F_SEP
    \o F_CONTENT_TEXT \o Echoed(text) \o F_QUOTE

RECURSIVE LogUpdates(_, _, _)
\* lines 463-522: the loop over the updates, from the k-th on, up to the
\* first that raises
LogUpdates(log, us, k) ==
    IF k > Handled(us) THEN log
    ELSE LogUpdates(LogReceivedData(log, UpdateEntry(us[k])), us, k + 1)

\* what bot.get_updates does: it returns the updates, or raises
UpdatesOutcomes == {"Updates", "InvalidToken", "TelegramError", "Exception"}

\* lines 458-459, 524-531 and 533-547: the value get_and_log_updates
\* returns, << success, message >>
UpdatesResult(us, o) ==
    CASE o = "InvalidToken" -> << FALSE, U_TOKEN >>
      [] o = "TelegramError" -> << FALSE, U_TELEGRAM \o E_OTHER >>
      [] o = "Exception" -> << FALSE, U_UNEXPECTED \o E_UNEXPECTED >>
      [] OTHER ->
            IF us = << >> THEN << TRUE, U_NONE >>
            ELSE IF Handled(us) < Len(us) THEN << FALSE, U_UNEXPECTED \o E_NO_ID >>
            ELSE << TRUE, U_LOGGED \o IntText(Len(us)) \o U_LOGGED_IN >>

\* the value a function returns, as ret holds it
Returned(r, kind) == [NoRet EXCEPT !.ok = r[1], !.kind = kind, !.text = r[2]]

updFrame == << count, delay, duration_minutes, localVars, now, calls, iter, pre, invalid_at,
               all_delivered, delivered_calls, waits_begun, exit_via, appVars,
               lines_read, runs, first_result, first_log >>

\* lines 450-547: bot.get_updates has returned the updates or raised; the
\* entries are written, app_log_callback, where there is one, is called,
\* and the function returns
get_and_log_updates ==
    /\ mode = "log" /\ pc = "u_updates"
    /\ \E o \in UpdatesOutcomes :
        /\ received_data_log' = IF o = "Updates"
                                THEN LogUpdates(received_data_log, updates, 1)
                                ELSE received_data_log
        /\ ret' = Returned(UpdatesResult(updates, o), "updates")
        /\ log_lines' = IF ~app_log_callback THEN log_lines
                        ELSE IF o = "Updates" THEN log_lines + CallbackCalls(updates)
                        ELSE log_lines + 1
    /\ pc' = "x_start"
    /\ UNCHANGED << mode, chat_id_str, message_text, chat_ids, updates, transport_text,
                    app_log_callback, updFrame >>

\* lines 186-188 with is_mass_spam False: the message of a BadRequest ends
\* with the advice
SendResult(chat, text, o) ==
    LET r == SendMessageToChat(chat, text, o) IN
    IF o.kind = "BadRequest" THEN << FALSE, r[2] \o MSG_CHECK_ID >> ELSE r

\* lines 150-165 with is_mass_spam False: the call returns at once, or
\* hands the text to the transport and awaits bot.send_message
send_message_to_chat ==
    /\ mode = "log" /\ pc = "u_send"
    /\ IF ReachesTransport(chat_id_str, message_text)
       THEN /\ transport_text' = message_text
            /\ pc' = "u_await"
            /\ UNCHANGED ret
       ELSE /\ ret' = Returned(SendResult(chat_id_str, message_text, NoOutcome), "send")
            /\ pc' = "x_start"
            /\ UNCHANGED transport_text
    /\ UNCHANGED << mode, chat_id_str, message_text, chat_ids, updates, received_data_log,
                    app_log_callback, log_lines, updFrame >>

\* lines 165-207 with is_mass_spam False: bot.send_message has returned or
\* raised; a delivered message is written to the log
send_message_to_chat_returns ==
    /\ mode = "log" /\ pc = "u_await"
    /\ \E o \in Outcomes :
        /\ received_data_log' =
            IF o.kind = "Delivered"
            THEN LogReceivedData(received_data_log, OutgoingEntry(chat_id_str, message_text))
            ELSE received_data_log
        /\ ret' = Returned(SendResult(chat_id_str, message_text, o), "send")
    /\ pc' = "x_start"
    /\ UNCHANGED << mode, chat_id_str, message_text, chat_ids, updates, transport_text,
                    app_log_callback, log_lines, updFrame >>

\* a chat id of one digit more than int() converts
LONG_ID == [k \in 1..(INT_MAX_STR_DIGITS + 1) |-> 49]

\* a call of get_and_log_updates or of send_message_to_chat, with no log
\* file yet, followed by a call of extract_chat_ids_from_log
InitUpd ==
    /\ mode = "log"
    /\ \/ /\ pc = "u_updates" /\ updates \in Batches(MaxUpdates) \cup LongBatches
          /\ chat_id_str = << >> /\ message_text = << >>
          /\ app_log_callback \in BOOLEAN
       \/ /\ pc = "u_send" /\ updates = << >>
          /\ chat_id_str \in {CHAT_7, CHAT_P7, CHAT_AL, LONG_ID}
          /\ message_text \in Bodies \cup {<< >>}
          /\ app_log_callback = FALSE
    /\ received_data_log = NoLog /\ lines_read = 0 /\ runs = 1
    /\ first_result = {} /\ first_log = NoLog
    /\ transport_text = << >>
    /\ count = 0 /\ delay = 0 /\ duration_minutes = 0 /\ chat_ids = {}
    /\ LocalsInit /\ AppWithBot

NextUpd ==
    \/ get_and_log_updates
    \/ send_message_to_chat
    \/ send_message_to_chat_returns
    \/ extract_chat_ids_from_log
    \/ extract_line
    \/ extract_return

SpecUpd == InitUpd /\ [][NextUpd]_vars

(***************************************************************************)
(* BotController: the user's actions, the input dialogs and the asyncio    *)
(* tasks.  A task created by asyncio.create_task runs its first step       *)
(* later; every await of a task is a point where another task or a user    *)
(* action may run.  A session is seen here by its start and its end only.  *)
(***************************************************************************)
appFrame == << sessionVars, logVars >>

SessionKinds == {"spam_chat", "mass_spam"}

\* asyncio.create_task(coro): the task exists and has not run yet
CreateTask(kind) ==
    /\ created < MaxTasks
    /\ tasks' = Append(tasks, [kind |-> kind, pc |-> "created"])
    /\ created' = created + 1

\* the task at position t moves on to pc p
TaskAt(t, p) == tasks' = [tasks EXCEPT ![t].pc = p]

\* the sessions that have started and have not ended
Running == {t \in DOMAIN tasks : tasks[t].kind \in SessionKinds /\ tasks[t].pc = "running"}

\* lines 1310-1316 and 1345-1351: the button or key opens the dialog unless
\* there is no bot or the flag is set
OpensSessionDialog(b, flag) == b # "none" /\ ~flag

\* lines 1310-1342
action_spam_admin ==
    /\ screen = "main"
    /\ screen' = IF OpensSessionDialog(bot, is_spamming) THEN "spam" ELSE "main"
    /\ UNCHANGED << is_spamming, bot, current_token, tasks, created, appFrame >>

\* lines 1345-1377
action_mass_spam ==
    /\ screen = "main"
    /\ screen' = IF OpensSessionDialog(bot, is_spamming) THEN "mass" ELSE "main"
    /\ UNCHANGED << is_spamming, bot, current_token, tasks, created, appFrame >>

\* lines 1318-1340: SpamInputScreen is dismissed with a result or with None
spam_admin_callback ==
    /\ screen = "spam"
    /\ screen' = "main"
    /\ \E result \in BOOLEAN :
        IF result THEN CreateTask("spam_chat") ELSE UNCHANGED << tasks, created >>
    /\ UNCHANGED << is_spamming, bot, current_token, appFrame >>

\* lines 1353-1375: MassSpamInputScreen is dismissed with a result or with None
mass_spam_callback ==
    /\ screen = "mass"
    /\ screen' = "main"
    /\ \E result \in BOOLEAN :
        IF result THEN CreateTask("mass_spam") ELSE UNCHANGED << tasks, created >>
    /\ UNCHANGED << is_spamming, bot, current_token, appFrame >>

\* a wrapper that leaves the flag as the session left it
FinallyKeepsFlag(flag) == flag

\* lines 1331-1332 and 1366-1367: finally: self.is_spamming = False
FinallyFlag(flag) == FALSE

\* the loop reaches an await. spam_chat, whose arguments the dialog has
\* checked (lines 733-751), is given a bot (line 245). spam_all_known_chats
\* has found a recipient (line 336), enters its loop because the deadline is
\* ahead (line 354: a duration such as 1e-320 minutes leaves end_time equal
\* to start_time) and is given a bot (line 364)
Suspends(kind, found, ahead) ==
    bot # "none" /\ (kind = "spam_chat" \/ (found /\ ahead))

\* lines 1323-1336 and 1358-1371: the wrapper's first step sets the flag and
\* enters the loop, which runs until its first await; a loop that returns
\* before any await is followed by the finally clause in the same step
spam_task_wrapper ==
    /\ \E t \in DOMAIN tasks, found \in BOOLEAN, ahead \in BOOLEAN :
        /\ tasks[t].kind \in SessionKinds /\ tasks[t].pc = "created"
        /\ IF Suspends(tasks[t].kind, found, ahead)
           THEN TaskAt(t, "running") /\ is_spamming' = TRUE
           ELSE TaskAt(t, "done") /\ is_spamming' = FinallyFlag(TRUE)
    /\ UNCHANGED << bot, current_token, screen, created, appFrame >>

\* lines 1331-1336 and 1366-1371: the loop has returned or raised. A session
\* need not come here: a delay or a duration of "inf" passes the dialogs
\* (lines 748 and 780) and its sleep (line 282) or its loop never ends
spam_task_finally ==
    /\ \E t \in DOMAIN tasks :
        /\ tasks[t].kind \in SessionKinds /\ tasks[t].pc = "running"
        /\ TaskAt(t, "done")
    /\ is_spamming' = FinallyFlag(is_spamming)
    /\ UNCHANGED << bot, current_token, screen, created, appFrame >>

\* lines 1241-1256
action_set_token ==
    /\ screen = "main"
    /\ screen' = IF is_spamming THEN "main" ELSE "token"
    /\ UNCHANGED << is_spamming, bot, current_token, tasks, created, appFrame >>

\* lines 1246-1254: InputScreen is dismissed with a token, or with nothing
set_token_callback ==
    /\ screen = "token"
    /\ screen' = "main"
    /\ \E new_token \in BOOLEAN :
        IF new_token THEN CreateTask("initialize_bot") ELSE UNCHANGED << tasks, created >>
    /\ UNCHANGED << is_spamming, bot, current_token, appFrame >>

\* lines 1042-1061: up to the await of bot.close() or of get_bot_info
initialize_bot ==
    /\ \E t \in DOMAIN tasks :
        /\ tasks[t].kind = "initialize_bot" /\ tasks[t].pc = "created"
        /\ IF bot # "none" THEN TaskAt(t, "close") ELSE TaskAt(t, "get_bot_info")
    /\ is_spamming' = FALSE
    /\ bot' = IF bot # "none" THEN bot ELSE "Bot"
    /\ UNCHANGED << current_token, screen, created, appFrame >>

\* lines 1049-1061: the old bot is closed, the new one is made
initialize_bot_closed ==
    /\ \E t \in DOMAIN tasks :
        /\ tasks[t].kind = "initialize_bot" /\ tasks[t].pc = "close"
        /\ TaskAt(t, "get_bot_info")
    /\ bot' = "Bot"
    /\ UNCHANGED << is_spamming, current_token, screen, created, appFrame >>

\* lines 1061-1077 and 1106-1117: get_bot_info returns (success, info_or_error)
initialize_bot_info ==
    /\ \E t \in DOMAIN tasks :
        /\ tasks[t].kind = "initialize_bot" /\ tasks[t].pc = "get_bot_info"
        /\ \E success \in BOOLEAN :
            IF success
            THEN \* line 1063 sets the token; with no bot, line 1065 raises
                 \* and the handler of lines 1106-1117 takes the token back
                 /\ TaskAt(t, "done")
                 /\ current_token' = IF bot # "none" THEN "token" ELSE "none"
            ELSE /\ IF bot # "none" THEN TaskAt(t, "close_failed") ELSE TaskAt(t, "done")
                 /\ current_token' = IF bot # "none" THEN current_token ELSE "none"
    /\ UNCHANGED << is_spamming, bot, screen, created, appFrame >>

\* lines 1072-1077: the bot that failed is closed and dropped
initialize_bot_failed ==
    /\ \E t \in DOMAIN tasks :
        /\ tasks[t].kind = "initialize_bot" /\ tasks[t].pc = "close_failed"
        /\ TaskAt(t, "done")
    /\ bot' = "none"
    /\ current_token' = "none"
    /\ UNCHANGED << is_spamming, screen, created, appFrame >>

\* lines 1259-1308: the button or key opens the dialog d unless there is no
\* bot; the flag is not looked at
OpensDialog(d) ==
    /\ screen' = IF bot # "none" THEN d ELSE "main"
    /\ UNCHANGED << is_spamming, bot, current_token, tasks, created, appFrame >>

\* the dialog d is dismissed; with run the callback creates the task of an
\* ordinary action
DialogCallback(run) ==
    /\ screen' = "main"
    /\ IF run THEN CreateTask("run_bot_action") ELSE UNCHANGED << tasks, created >>
    /\ UNCHANGED << is_spamming, bot, current_token, appFrame >>

\* lines 1259-1268
action_set_name ==
    /\ screen = "main"
    /\ OpensDialog("set_name")

\* lines 1263-1265: if new_name
set_name_callback ==
    /\ screen = "set_name"
    /\ \E new_name \in BOOLEAN : DialogCallback(new_name)

\* lines 1270-1277
action_set_desc ==
    /\ screen = "main"
    /\ OpensDialog("set_desc")

\* lines 1274-1275: the task is created whatever the dialog gave
set_desc_callback ==
    /\ screen = "set_desc"
    /\ \E new_desc \in BOOLEAN : DialogCallback(TRUE)

\* lines 1279-1286
action_set_about ==
    /\ screen = "main"
    /\ OpensDialog("set_about")

\* lines 1283-1284: the task is created whatever the dialog gave
set_about_callback ==
    /\ screen = "set_about"
    /\ \E new_about \in BOOLEAN : DialogCallback(TRUE)

\* lines 1288-1296
action_set_avatar ==
    /\ screen = "main"
    /\ OpensDialog("set_avatar")

\* lines 1292-1294: if photo_path
set_avatar_callback ==
    /\ screen = "set_avatar"
    /\ \E photo_path \in BOOLEAN : DialogCallback(photo_path)

\* lines 1299-1308
action_send_msg ==
    /\ screen = "main"
    /\ OpensDialog("send_msg")

\* lines 1303-1306: if chat_id and message_text
send_msg_callback ==
    /\ screen = "send_msg"
    /\ \E result \in BOOLEAN : DialogCallback(result)

\* lines 1420-1432: the get-info or get-updates button creates the task of
\* an ordinary action
on_button_pressed ==
    /\ screen = "main"
    /\ bot # "none"
    /\ CreateTask("run_bot_action")
    /\ UNCHANGED << is_spamming, bot, current_token, screen, appFrame >>

\* lines 1155-1158: an ordinary action is refused while the flag is set
RefusesAction(flag) == flag

\* the coroutine reaches an await of the transport. It does not when it
\* returns or raises before: set_bot_profile_photo is given a path that is
\* no file when the task runs (lines 126-129), or the callback of the dialog
\* made the coroutine with self.bot None, after an initialize_bot that
\* failed while the dialog was open (line 1074), and the first use of the
\* bot raises AttributeError (caught at line 1214 or in the coroutine)
AwaitsTransport(reaches) == reaches

\* lines 1155-1178 and, for a coroutine that ends before any await,
\* 1178-1231: the first step of the task, up to the await of the action's
\* coroutine or to the end of the finally clause
run_bot_action ==
    /\ \E t \in DOMAIN tasks, reaches \in BOOLEAN :
        /\ tasks[t].kind = "run_bot_action" /\ tasks[t].pc = "created"
        /\ IF RefusesAction(is_spamming) \/ ~AwaitsTransport(reaches)
           THEN TaskAt(t, "done") ELSE TaskAt(t, "await")
    /\ UNCHANGED << is_spamming, bot, current_token, screen, created, appFrame >>

\* run_bot_action awaited in the action of a key: the call runs at once, up
\* to the await of its coroutine, which was made with a bot; with no bot
\* (lines 1234 and 1380) or with the flag set (line 1155) nothing is begun
AwaitedInline ==
    /\ IF bot # "none" /\ ~RefusesAction(is_spamming)
       THEN /\ created < MaxTasks
            /\ tasks' = Append(tasks, [kind |-> "run_bot_action", pc |-> "await"])
            /\ created' = created + 1
       ELSE UNCHANGED << tasks, created >>
    /\ UNCHANGED << is_spamming, bot, current_token, screen, appFrame >>

\* lines 1233-1237: the key i
action_get_info ==
    /\ screen = "main"
    /\ AwaitedInline

\* lines 1379-1387: the key u
action_get_updates ==
    /\ screen = "main"
    /\ AwaitedInline

\* lines 1178-1231: the coroutine returns; after a change of the profile
\* get_bot_info is awaited (line 1197) before the action ends
run_bot_action_returns ==
    /\ \E t \in DOMAIN tasks :
        /\ tasks[t].kind = "run_bot_action"
        /\ \/ tasks[t].pc = "await" /\ bot # "none" /\ TaskAt(t, "get_bot_info")
           \/ tasks[t].pc \in {"await", "get_bot_info"} /\ TaskAt(t, "done")
    /\ UNCHANGED << is_spamming, bot, current_token, screen, created, appFrame >>

\* the ordinary actions that are awaiting the transport
InFlight == {t \in DOMAIN tasks : tasks[t].kind = "run_bot_action"
                                  /\ tasks[t].pc \in {"await", "get_bot_info"}}

\* an initialize_bot task takes a step
InitializeStep ==
    \E t \in DOMAIN tasks : /\ tasks[t].kind = "initialize_bot"
                            /\ t \in DOMAIN tasks'
                            /\ tasks'[t].pc # tasks[t].pc

\* lines 1138-1152: the state after on_mount, with or without a saved token
on_mount ==
    /\ is_spamming = FALSE /\ bot = "none" /\ current_token = "none" /\ screen = "main"
    /\ \E loaded_token \in BOOLEAN :
        IF loaded_token
        THEN tasks = << [kind |-> "initialize_bot", pc |-> "created"] >> /\ created = 1
        ELSE tasks = << >> /\ created = 0

InitApp ==
    /\ mode = "app" /\ pc = "idle"
    /\ chat_id_str = << >> /\ message_text = << >> /\ count = 0 /\ delay = 0
    /\ duration_minutes = 0 /\ chat_ids = {}
    /\ LocalsInit
    /\ LogIdle
    /\ on_mount

NextApp ==
    \/ action_spam_admin
    \/ action_mass_spam
    \/ spam_admin_callback
    \/ mass_spam_callback
    \/ spam_task_wrapper
    \/ spam_task_finally
    \/ action_set_token
    \/ set_token_callback
    \/ initialize_bot
    \/ initialize_bot_closed
    \/ initialize_bot_info
    \/ initialize_bot_failed
    \/ action_set_name
    \/ set_name_callback
    \/ action_set_desc
    \/ set_desc_callback
    \/ action_set_about
    \/ set_about_callback
    \/ action_set_avatar
    \/ set_avatar_callback
    \/ action_send_msg
    \/ send_msg_callback
    \/ on_button_pressed
    \/ action_get_info
    \/ action_get_updates
    \/ run_bot_action
    \/ run_bot_action_returns

SpecApp == InitApp /\ [][NextApp]_vars

\* C1: at most one session, spam_chat or spam_all_known_chats, has started
\* and not ended, whatever the order of the user's actions, of the dialog
\* callbacks and of the steps of the tasks the callbacks create.
C1_AtMostOneSession == Cardinality(Running) <= 1

\* C18: no ordinary action awaits the transport while a session is running.
C18_NoActionDuringSession == ~(Running # {} /\ InFlight # {})

\* C19: no step of initialize_bot is taken while a session is running.
C19_NoInitializeDuringSession == [][InitializeStep => Running = {}]_vars

(***************************************************************************)
(* Properties of the inputs, the summary and the progress lines.           *)
(***************************************************************************)
\* C11: with no recipient discovered the cyclic loop returns at once: no
\* transport call, no sweep, no attempt counted, the value False, and a
\* reason that names the update-logging action.
C11_NoRecipients ==
    MassSession /\ chat_ids = {} /\ pc # "m_start"
    => /\ pc = "done" /\ ret = NoIdsResult
       /\ ret.ok = FALSE /\ ret.kind = "rejected" /\ Contains(ret.text, LOG_UPDATES)
       /\ calls = 0 /\ total_sent_attempts = 0 /\ chat_ids_list = << >>
       /\ iter = NoIter /\ exit_via = "none" /\ now = 0

\* the rejection of a session that was given a text and a positive duration
C11_Witness ==
    /\ MassSession /\ chat_ids = {} /\ pc = "done"
    /\ message_text # << >> /\ duration_minutes > 0

\* C12: the cyclic loop given an empty text, a delay <= 0 or a duration <= 0
\* rejects its arguments before any sweep: no attempt is counted and no
\* transport call is made.
C12_MassInputErrors ==
    MassSession /\ chat_ids # {}
        /\ (message_text = << >> \/ delay <= 0 \/ duration_minutes <= 0)
    => total_sent_attempts = 0 /\ calls = 0

\* the session's arguments pass the preconditions of its loop
PassesPreconditions ==
    \/ ChatSession /\ SpamChatRejects(chat_id_str, message_text, count, delay) = << >>
    \/ MassSession /\ chat_ids # {}

\* C13: every session ends and, when it passed its preconditions, returns
\* its summary; the returned value is never replaced; the single-target loop
\* makes at most count iterations, the cyclic loop ends only after its
\* deadline or by the fatal stop; this for every outcome of every call,
\* exceptions of the transport included.
C13_Terminates ==
    /\ <>(pc = "done")
    /\ [](pc = "done" /\ PassesPreconditions => ret.kind = "summary")
    /\ [][pc = "done" => pc' = "done" /\ ret' = ret]_vars
    /\ [](ChatSession /\ PassesPreconditions => i < count /\ calls <= 2 * count)
    /\ [](MassSession /\ Summarised => now >= end_time \/ exit_via = "fatal")

\* the iterations of a summarised single-target session, and those of them
\* that ended without a delivery
ChatIterations == i + 1
ChatUndelivered == ChatIterations - success_count

\* C14: the summary of a session with an attempt that ended as a failure
\* holds an error text, and a delivered retry leaves the error text of an
\* earlier failure as it was.
C14_LastErrorKept ==
    /\ iter.first.kind = "RetryAfter" /\ iter.retry.kind = "Delivered"
       => last_error = pre.last_error
    /\ MassSession /\ Summarised /\ ret.failed >= 1 => ret.last_error # << >>
    /\ ChatSession /\ Summarised /\ ChatUndelivered >= 1 => ret.last_error # << >>

\* C15: the summary of the single-target loop counts as errors the
\* iterations that ended without a delivery, and reports the deliveries out
\* of the iterations made.
C15_ChatSummaryCounts ==
    ChatSession /\ Summarised
    => /\ ret.failed = ChatUndelivered
       /\ ret.attempts = ChatIterations

\* C16: the handling of an attempt's outcome calls app_log_callback at
\* least once, whatever the outcome.
C16_LinePerAttempt ==
    iter.first.kind # "none" => log_lines >= pre.lines + 1

\* C17: a session that passed its preconditions returns True exactly when
\* one of its transport calls was delivered.
C17_ReturnsDelivered ==
    /\ pc = "done" /\ PassesPreconditions => (ret.ok <=> delivered_calls >= 1)
    /\ success_count = delivered_calls

\* a session that returns True though its last call failed, and one that
\* returns False after a failed retry
C17_Witness ==
    /\ Summarised /\ calls >= 3
    /\ \/ ret.ok /\ iter.first.kind = "BadRequest"
       \/ ~ret.ok /\ iter.retry.kind = "NetworkError"

\* the line matches none of the six patterns
MatchesNone(line) ==
    \A pat \in {chat_id_pattern, chat_username_pattern, sender_id_pattern,
                sender_username_pattern, callback_from_id_pattern,
                callback_from_username_pattern} : ~Search(pat, line).ok

\* C20: discovery returns and never raises; for a log that does not exist
\* it returns the empty set; for a log that exists, a line that matches none
\* of the six patterns adds nothing and the other lines are still
\* processed: the result is what the lines of the file that match some
\* pattern add.
C20_DiscoveryNeverRaises ==
    mode = "log" =>
        /\ pc # "x_raised"
        /\ pc = "x_returned" =>
              IF received_data_log.state = "file"
              THEN LET L == Lines(received_data_log.text) IN
                   chat_ids = UNION {LineIds(L[k]) : k \in {j \in 1..Len(L) : ~MatchesNone(L[j])}}
              ELSE chat_ids = {}

\* the positions of the line at which the text P begins
Occurs(P, line) ==
    {p \in 1..(Len(line) - Len(P) + 1) : SubSeq(line, p, p + Len(P) - 1) = P}

\* the position after the '-' that may stand at a before the digits of a
\* signed id
DigitsFrom(line, a, signed) ==
    IF signed /\ a <= Len(line) /\ line[a] = MINUS THEN a + 1 ELSE a

\* how many decimal digits stand in the line from position b on
DigitRun(line, b) ==
    LET Stops == {k \in b..Len(line) : ~IsDecimal(line[k])} IN
    IF Stops = {} THEN Len(line) - b + 1
    ELSE (CHOOSE k \in Stops : \A j \in Stops : k <= j) - b

\* "<P><id>": the decimal id, signed where that is allowed, that follows
\* the first P of the line that has one after it
IdReference(P, signed, line) ==
    LET Starts == {p \in Occurs(P, line) :
                      DigitRun(line, DigitsFrom(line, p + Len(P), signed)) >= 1}
    IN  IF Starts = {} THEN {}
        ELSE LET a == (CHOOSE p \in Starts : \A q \in Starts : p <= q) + Len(P)
                 b == DigitsFrom(line, a, signed)
             IN  {SubSeq(line, a, b + DigitRun(line, b) - 1)}

\* the positions q of "(@" after position a: at least one character stands
\* between a and q, and at least one between "(@" and the first ')' after a
HandleSpots(line, a) ==
    LET Closers == {c \in a..Len(line) : line[c] = RPAREN} IN
    IF Closers = {} THEN {}
    ELSE LET c == CHOOSE k \in Closers : \A j \in Closers : k <= j
         IN  {q \in (a + 1)..(c - 3) : line[q] = LPAREN /\ line[q + 1] = AT}

\* "<P>... (@handle)": "@" and the handle, which is what stands between
\* the last "(@" and the first ')' after the first P of the line that has
\* the two after it
HandleReference(P, line) ==
    LET Starts == {p \in Occurs(P, line) : HandleSpots(line, p + Len(P)) # {}} IN
    IF Starts = {} THEN {}
    ELSE LET a == (CHOOSE p \in Starts : \A q \in Starts : p <= q) + Len(P)
             Q == HandleSpots(line, a)
             q == CHOOSE k \in Q : \A j \in Q : j <= k
             c == CHOOSE k \in (q + 3)..Len(line) :
                      line[k] = RPAREN /\ \A j \in (q + 3)..(k - 1) : line[j] # RPAREN
         IN  {<< AT >> \o SubSeq(line, q + 2, c - 1)}

\* the values the six patterns match in a line: the signed id after
\* "Chat: ", the id after "Sender: " and after "CallbackQuery: From=", and
\* the handle of each of the three
PatternValues(line) ==
    IdReference(T_CHAT, TRUE, line) \cup HandleReference(T_CHAT, line)
    \cup IdReference(T_SENDER, FALSE, line) \cup HandleReference(T_SENDER, line)
    \cup IdReference(T_CALLBACK, FALSE, line) \cup HandleReference(T_CALLBACK, line)

\* discovery has returned from a log that is a file
ReturnedFromText ==
    /\ mode = "log" /\ pc = "x_returned" /\ runs = 1
    /\ received_data_log.state = "file"

\* C21: the result of discovery is exactly the set of the values the six
\* patterns match over all the lines of the log, each id as its signed
\* decimal text and each handle with '@' before it: "Chat: 12" yields
\* "12" and "Chat: -12" yields "-12"; "Sender: 12 (@al)" yields "12" and
\* "@al"; the log with the lines "Chat: 12345", "Sender: 999 (@alice)" and
\* "zz" yields {"12345", "999", "@alice"}.
C21_ExactSet ==
    ReturnedFromText =>
        LET text == received_data_log.text
            L == Lines(text)
        IN
        /\ chat_ids = UNION {PatternValues(L[k]) : k \in 1..Len(L)}
        /\ text = T_CHAT \o T_ID => chat_ids = {T_ID}
        /\ text = T_CHAT \o << MINUS >> \o T_ID => chat_ids = {<< MINUS >> \o T_ID}
        /\ text = T_SENDER \o T_ID \o T_HANDLE => chat_ids = {T_ID, HANDLE_AL}
        /\ text = EXAMPLE_LOG => chat_ids = {ID_12345, ID_999, HANDLE_ALICE}

\* the result is exact for every log the decoder reads to its end: what the
\* patterns, searched as re searches them, add for the lines read is what
\* they match in the lines
ExactOnDecodableLogs ==
    /\ ReturnedFromText /\ ~Undecodable(received_data_log.text) => C21_ExactSet
    /\ mode = "log" /\ pc = "x_lines" =>
          \A k \in 1..lines_read :
              LET line == ReadLines(received_data_log.text)[k] IN
              LineIds(line) = PatternValues(line)

\* the first call has returned and the file is what it was at that return
SameLog == received_data_log = first_log

\* the second call has returned
ReturnedAgain == mode = "log" /\ pc = "x_returned" /\ runs = 2

\* a step of a call of discovery: the call begins, or it is at its loop
DiscoveryStep ==
    mode = "log" /\ (pc = "x_lines" \/ (pc = "x_start" /\ pc' # "x_start"))

ChangedLog ==
    ReturnedAgain /\ ~SameLog /\ chat_ids # first_result

\* what discovery returns for the text of a log
Discovered(text) == LET L == ReadLines(text) IN UNION {LineIds(L[k]) : k \in 1..Len(L)}

\* the update u has a body: the text of a message or the data of a callback
\* query
HasBody(u) ==
    \/ u.message # NoObject /\ Truthy(u.message.text)
    \/ u.message = NoObject /\ u.edited_message = NoObject
       /\ u.callback_query # NoObject /\ Truthy(u.callback_query.data)

\* the body of an update that has one
Body(u) == IF u.message # NoObject THEN u.message.text ELSE u.callback_query.data

\* the update u with the body b in place of its own
WithBody(u, b) ==
    IF ~HasBody(u) THEN u
    ELSE IF u.message # NoObject THEN [u EXCEPT !.message.text = b]
    ELSE [u EXCEPT !.callback_query.data = b]

\* the log the writers would have left had every body been b
LogWithBody(b) ==
    IF updates # << >>
    THEN LogUpdates(NoLog, [k \in DOMAIN updates |-> WithBody(updates[k], b)], 1)
    ELSE LogReceivedData(NoLog, OutgoingEntry(chat_id_str, b))

\* discovery has returned from a log the writers wrote
ReturnedFromWritten ==
    /\ mode = "log" /\ pc = "x_returned"
    /\ (updates # << >> \/ chat_id_str # << >>)
    /\ received_data_log.state = "file"

\* C22: the recipients found in a log do not depend on the message bodies and
\* callback data echoed in it: the same updates, or the same delivered
\* message, with any other body give the same set.
C22_BodyAddsNoRecipient ==
    ReturnedFromWritten => \A b \in Bodies : Discovered(LogWithBody(b).text) = chat_ids

\* the body t is echoed in the line s as the claim says: whole and closed
\* by the quote when it is no longer than the cap, else its first TEXT_CAP
\* characters, the marker and the quote, and no character more of it
EchoedAsCapped(s, t) ==
    IF Len(t) <= TEXT_CAP
    THEN Contains(s, F_CONTENT_TEXT \o t \o F_QUOTE)
    ELSE /\ Contains(s, F_CONTENT_TEXT \o SubSeq(t, 1, TEXT_CAP) \o ELLIPSIS \o F_QUOTE)
         /\ ~Contains(s, SubSeq(t, 1, TEXT_CAP + 1))

\* C24: send_message_to_chat hands the whole message_text to the transport;
\* the line it writes for a delivered message, and the line
\* get_and_log_updates writes for the k-th update, a message, echo the body whole when it has
\* at most 150 characters, and else its first 150 characters and '...'.
C24_EchoIsCapped ==
    mode = "log" /\ pc # "u_send" /\ pc # "u_updates" =>
        /\ chat_id_str # << >> => transport_text = message_text
        /\ chat_id_str # << >> /\ received_data_log.state = "file"
              => EchoedAsCapped(Lines(received_data_log.text)[1], message_text)
        /\ received_data_log.state = "file" =>
              \A k \in 1..Handled(updates) :
                 updates[k].message # NoObject /\ Truthy(updates[k].message.text)
                 => EchoedAsCapped(Lines(received_data_log.text)[k],
                                   updates[k].message.text)

\* a delivered message of more than 150 characters has been written
C24_Witness ==
    /\ mode = "log" /\ pc = "x_start" /\ chat_id_str # << >>
    /\ Len(message_text) > TEXT_CAP /\ Len(transport_text) > TEXT_CAP
    /\ received_data_log.state = "file"

\* C25: the attempts the summary of a cyclic session reports are the
\* transport calls the session made, first attempts and retries alike.
C25_AttemptsAreCalls ==
    MassSession /\ Summarised /\ message_text # << >> => ret.attempts = calls

\* the cyclic loop begins the first attempt of an iteration (line 369)
MassFirstAttempt == MassSession /\ total_sent_attempts' = total_sent_attempts + 1

\* C26: two consecutive first attempts of a cyclic session are at least the
\* configured delay apart unless a rate-limit wait lies between them, the
\* last attempt of a sweep and the first of the next sweep included.  With
\* one recipient every sweep is one attempt, made when the sweep starts, so
\* the previous attempt was made at current_cycle_start_time.
C26_DelayBetweenAttempts ==
    [][MassFirstAttempt /\ Len(chat_ids_list) = 1 /\ total_sent_attempts >= 1
         /\ ReachesTransport(chat_ids_list[1], message_text)
         /\ rate_limit_waits' = 0
       => now' - current_cycle_start_time >= delay]_vars

\* an iteration of the single-target loop ends: its first call or its retry
\* has returned and no rate-limit wait begins
ChatIterationEnds ==
    ChatSession /\ pc \in {"c_send1", "c_send2"} /\ pc' # "c_rlsleep"

\* the iteration that ends is followed by another one
ChatNotLast == i < count - 1 /\ exit_via' # "fatal"

\* C27: in the single-target loop the suspension of length delay follows an
\* iteration exactly when the iteration is not the last one, delay > 0 and
\* no rate-limit wait happened in it; otherwise the next iteration, if any,
\* starts at once.
C27_DelayAfterIteration ==
    [][ChatIterationEnds =>
         /\ pc' = "c_delay" <=> (ChatNotLast /\ delay > 0 /\ iter'.waits = 0)
         /\ pc' = "c_delay" => current_delay' = delay /\ i' = i
         /\ pc' # "c_delay" /\ ChatNotLast => pc' = "c_send1" /\ i' = i + 1
         /\ ~ChatNotLast => pc' = "done"]_vars

\* the second iteration is followed by the delay although the first one,
\* which waited for a rate limit, was not
C27_Witness ==
    ChatSession /\ pc = "c_delay" /\ i = 1 /\ waits_begun = 1 /\ iter.waits = 0

\* the session has taken the fatal-credential path: the token stop, or the
\* return of a session that has no bot
FatalExit == exit_via \in {"fatal", "no_bot"}

\* the last recipient of a sweep has been handled, without the fatal stop
SweepEnds ==
    /\ MassSession /\ pc \in {"m_send1", "m_send2"} /\ i = Len(chat_ids_list) - 1
    /\ pc' \notin {"m_rlsleep", "m_send2"} /\ exit_via' # "fatal"

\* a sweep starts: the first recipient's attempt begins (lines 354-370)
SweepStarts ==
    /\ pc' = "m_send1" /\ i' = 0 /\ current_cycle_start_time' = now'
    /\ total_sent_attempts' = total_sent_attempts + 1

\* C28: a cyclic session that passed its preconditions returns only at or
\* after the deadline or by the fatal-credential path, and every sweep that ends before the deadline without
\* the fatal stop is followed by a new sweep, at once or after the padding
\* of the cycle.
C28_SweepsUntilDeadline ==
    /\ [](MassSession /\ pc = "done" /\ PassesPreconditions
            => now >= end_time \/ FatalExit)
    /\ [][SweepEnds /\ now' < end_time => pc' = "m_pad" \/ SweepStarts]_vars
    /\ [][MassSession /\ pc = "m_pad" /\ now' < end_time => SweepStarts]_vars

\* the second sweep over two recipients has started before the deadline
C28_Witness ==
    /\ MassSession /\ pc = "m_send1" /\ i = 0 /\ Len(chat_ids_list) = 2
    /\ total_sent_attempts = 3 /\ now < end_time

\* the loop has come to the next recipient and the check of line 359 ends
\* the session before any attempt for that recipient
ForCheckExit ==
    /\ pc' = "done" /\ exit_via' = "for_check" /\ calls' = calls
    /\ total_sent_attempts' = total_sent_attempts

\* the recipient whose first attempt is in flight
Attempted == chat_ids_list[i + 1]

\* C29: the captured list holds every discovered recipient once and never
\* changes; the first attempts of a sweep go through it in its order, from
\* the first recipient on, one attempt per recipient, and a later sweep
\* starts again from the first recipient only after the last one was
\* handled; the loop variable moves on only with an attempt, or when the
\* deadline check ends the session at the next recipient.
C29_SweepOrder ==
    /\ [](MassSession /\ chat_ids_list # << >> =>
            /\ Len(chat_ids_list) = Cardinality(chat_ids)
            /\ \A x \in chat_ids : \E n \in 1..Len(chat_ids_list) : chat_ids_list[n] = x
            /\ pc = "m_send1" => i < Len(chat_ids_list) /\ Attempted \in chat_ids)
    /\ [][MassSession /\ pc # "m_start" => chat_ids_list' = chat_ids_list]_vars
    /\ [][MassSession /\ i' # i => MassFirstAttempt \/ ForCheckExit]_vars
    /\ [][MassFirstAttempt =>
            /\ pc' = "m_send1"
            /\ IF total_sent_attempts = 0 THEN i' = 0
               ELSE \/ i' = i + 1 /\ current_cycle_start_time' = current_cycle_start_time
                    \/ /\ i' = 0 /\ i = Len(chat_ids_list) - 1
                       /\ current_cycle_start_time' = now']_vars

\* the second recipient's attempt of the second sweep is in flight
C29_Witness ==
    /\ MassSession /\ pc = "m_send1" /\ Len(chat_ids_list) = 2 /\ i = 1
    /\ total_sent_attempts = 4

(***************************************************************************)
(* A cyclic session during which the received-data log grows: another      *)
(* task's get_and_log_updates writes the entry of an update while the      *)
(* session sweeps.                                                         *)
(***************************************************************************)
\* lines 294-329: what extract_chat_ids_from_log() returns for a log
ExtractResult(log) == IF log.state = "file" THEN Discovered(log.text) ELSE {}

\* a message of the user 9, who has no username, in the private chat 9
UPDATE_9 ==
    [NoUpdate(1) EXCEPT !.message =
        TextMessage([id |-> 9, title |-> None, username |-> None], UserOf(2), TEXT_HI)]

\* the log a session finds: none, or the entry of one message
SweepLogs == {NoLog, LogUpdates(NoLog, << UPDATE_AL >>, 1)}

\* the session's delay, in ticks, and its duration_minutes * 60, in ticks
SweepDelayArgs == {1}
SweepDurationArgs == {0, MaxDuration}

\* a list that follows the log: the recipients the log names by now are
\* added to it
RediscoveredList(list, log) ==
    LET new == ExtractResult(log) \ {list[n] : n \in 1..Len(list)}
    IN  list \o (CHOOSE l \in ListsOf(new) : TRUE)

\* lines 352-358: every sweep iterates the chat_ids_list built at line 352;
\* nothing reads the log again
SweptList(list, log) == list

\* lines 52-58 called from get_and_log_updates (lines 465-518) in another
\* task while the session is suspended: the entries of the pending updates
\* are appended to the file
log_received_data ==
    /\ MassSession /\ pc \notin {"m_start", "done"}
    /\ updates # << >>
    /\ received_data_log' = LogUpdates(received_data_log, updates, 1)
    /\ updates' = << >>
    /\ chat_ids_list' = SweptList(chat_ids_list, received_data_log')
    /\ UNCHANGED << inputVars, success_count, error_count, rate_limit_waits,
                    total_sent_attempts, start_time, end_time, last_error,
                    stopped_by_time, i, current_delay, wait_time, wait_start,
                    current_cycle_start_time, runVars, obsVars, appVars,
                    lines_read, runs, first_result, first_log, transport_text,
                    app_log_callback >>

\* a call of spam_all_known_chats; line 335 has what discovery returns for
\* the log as it is then
InitSweep ==
    /\ mode = "mass" /\ pc = "m_start"
    /\ message_text = TEXT_HI /\ delay \in SweepDelayArgs
    /\ duration_minutes \in SweepDurationArgs
    /\ received_data_log \in SweepLogs
    /\ chat_ids = ExtractResult(received_data_log)
    /\ updates = << UPDATE_9 >>
    /\ chat_id_str = << >> /\ count = 0
    /\ lines_read = 0 /\ runs = 0 /\ first_result = {} /\ first_log = NoLog
    /\ transport_text = << >>
    /\ app_log_callback = FALSE
    /\ bot \in BotArgs /\ LocalsInit /\ AppRest

NextSweep ==
    \/ MassStart
    \/ MassSend1Return
    \/ MassRlSleepReturn
    \/ MassSend2Return
    \/ MassDelaySleepReturn
    \/ MassPadReturn
    \/ log_received_data

SpecSweep == InitSweep /\ [][NextSweep]_vars

\* the log grows
LogGrows == MassSession /\ received_data_log' # received_data_log

\* C30: the recipients of a cyclic session are those discovery returned for
\* the log as it was at session start; once captured, neither the set nor
\* the list changes, and an entry appended to the log during the session
\* changes nothing of the session, so that every later attempt is made for a
\* recipient of the captured list.
C30_CapturedOnce ==
    /\ [][MassSession => chat_ids' = chat_ids]_vars
    /\ [][MassSession /\ pc # "m_start" => chat_ids_list' = chat_ids_list]_vars
    /\ [][LogGrows => /\ chat_ids = ExtractResult(received_data_log)
                      /\ UNCHANGED << inputVars, localVars, runVars >>]_vars
    /\ [](MassSession /\ pc \in {"m_send1", "m_send2"} => Attempted \in chat_ids)

\* the second sweep is under way for the captured recipients while the log
\* names recipients the session does not have
C30_Witness ==
    /\ MassSession /\ pc = "m_send1" /\ updates = << >>
    /\ total_sent_attempts > Len(chat_ids_list)
    /\ ExtractResult(received_data_log) # chat_ids

\* the floor of a cycle, in ticks (line 436)
MinCycleTicks == MinCycleSeconds * TicksPerSecond

\* C31: the starts of two consecutive sweeps of the cyclic loop are at least
\* 1 second apart: a sweep that ends in under 1 second before the deadline
\* is followed by the padding, which lasts until 1 second after the sweep's
\* start, and only a sweep that lasted 1 second or more is followed by the
\* next sweep at once.
C31_MinimumCycle ==
    /\ [][MassSession /\ SweepStarts /\ total_sent_attempts >= 1
            => now' - current_cycle_start_time >= MinCycleTicks]_vars
    /\ [][SweepEnds /\ now' < end_time
            => (pc' = "m_pad" <=> now' - current_cycle_start_time < MinCycleTicks)]_vars
    /\ [][MassSession /\ pc = "m_pad"
            => now' = current_cycle_start_time + MinCycleTicks]_vars

\* the second sweep has started 1 second after the first, which was padded
C31_Witness ==
    /\ MassSession /\ pc = "m_send1" /\ i = 0 /\ total_sent_attempts >= 2
    /\ current_cycle_start_time = start_time + MinCycleTicks /\ now = current_cycle_start_time
    /\ delivered_calls >= 1

\* a polling sleep of a rate-limit wait, or of a delay between recipients,
\* ends at or after the deadline while the wait has not run its length
RlWaitOverrun ==
    /\ MassSession /\ pc = "m_rlsleep" /\ now' >= end_time
    /\ now' < wait_start + wait_time * TicksPerSecond
DelayOverrun ==
    /\ MassSession /\ pc = "m_delaysleep" /\ now' >= end_time
    /\ now' < wait_start + current_delay

\* C32: in the cyclic loop no wait goes on once the deadline has passed: the
\* poll that finds the deadline passed during a rate-limit wait or a delay
\* between recipients comes less than one polling interval after the
\* deadline, ends the wait before its full length, and the session returns
\* with the stop reason "deadline expired".
C32_WaitCutAtDeadline ==
    /\ [](MassSession /\ pc \in {"m_rlsleep", "m_delaysleep"} => now < end_time)
    /\ [][RlWaitOverrun \/ DelayOverrun =>
            /\ now' - end_time < PollTicks
            /\ pc' = "done" /\ stopped_by_time' /\ ret'.by_time
            /\ exit_via' = (IF pc = "m_rlsleep" THEN "rl_wait" ELSE "delay_wait")
            /\ calls' = calls]_vars

\* a session stopped at its deadline in the middle of a rate-limit wait
C32_Witness ==
    /\ MassSession /\ Summarised /\ exit_via = "rl_wait" /\ ret.by_time
    /\ now = end_time /\ wait_start < now
    /\ now < wait_start + wait_time * TicksPerSecond

\* C33: a line of the log that discovery has read contributes at most two
\* recipients to the result.
C33_AtMostTwoPerLine ==
    mode = "log" /\ pc = "x_lines" /\ lines_read >= 1
        => Cardinality(LineIds(ReadLines(received_data_log.text)[lines_read])) <= 2

\* a session task ends: its wrapper's finally clause has run, after the loop
\* returned or raised, or after it returned before its first await
SessionEnds ==
    \E t \in DOMAIN tasks : /\ tasks[t].kind \in SessionKinds
                            /\ tasks[t].pc \in {"created", "running"}
                            /\ t \in DOMAIN tasks' /\ tasks'[t].pc = "done"

\* the session tasks that have ended
Ended == {t \in DOMAIN tasks : tasks[t].kind \in SessionKinds /\ tasks[t].pc = "done"}

\* C34: the step in which a session task ends, however its loop ended,
\* leaves is_spamming false, and the flag is set only while a session task
\* that has not ended is running: no ended session keeps the flag set, so
\* the actions that test it are not refused on account of it.
C34_FlagCleared ==
    /\ [][SessionEnds => ~is_spamming']_vars
    /\ [](is_spamming => Running # {})

\* after a session has ended the dialog of a new session is open
C34_Witness ==
    Ended # {} /\ ~is_spamming /\ screen \in {"spam", "mass"}

\* C35: is_spamming is true in every state in which a session is running.
C35_FlagWhileRunning == Running # {} => is_spamming

\* C36: once the deadline of a cyclic session has passed, the only transport
\* call the session still starts is the retry that follows a rate-limit
\* wait, after whose return the session returns; and no wait, be it a
\* rate-limit wait, a delay between recipients or the padding of a cycle,
\* is begun or goes on.
C36_AfterDeadline ==
    /\ [][MassSession /\ calls' # calls /\ now' >= end_time'
            => pc' = "m_send2" /\ calls' = calls + 1]_vars
    /\ [][MassSession /\ pc = "m_send2" /\ now' >= end_time => pc' = "done"]_vars
    /\ [](MassSession /\ pc \in {"m_rlsleep", "m_delaysleep", "m_pad"} => now < end_time)

\* a retry that was started when the deadline had passed is in flight
C36_Witness ==
    /\ MassSession /\ pc = "m_send2" /\ now >= end_time
    /\ ReachesTransport(Attempted, message_text)

\* C37: in every state of a cyclic session error_count >= 0, 0 <=
\* success_count <= total_sent_attempts and rate_limit_waits <=
\* total_sent_attempts; in every state of a single-target session that
\* passed its preconditions 0 <= success_count <= count and the transport
\* calls are at most 2 * count.
C37_CountersInBounds ==
    /\ MassSession =>
        /\ error_count >= 0 /\ success_count >= 0
        /\ success_count <= total_sent_attempts
        /\ rate_limit_waits <= total_sent_attempts
    /\ ChatSession /\ PassesPreconditions =>
        /\ success_count >= 0 /\ success_count <= count
        /\ calls <= 2 * count

\* a cyclic session has returned after one attempt whose retry, sent after a
\* rate-limit wait, was delivered: every counter is at its bound
C37_Witness ==
    /\ MassSession /\ Summarised /\ iter.retry.kind = "Delivered"
    /\ total_sent_attempts = 1 /\ success_count = 1 /\ rate_limit_waits = 1
    /\ error_count = 0

\* "@" and a username, or nothing for a missing username
Handle(username) == IF Truthy(username) THEN {<< AT >> \o username} ELSE {}

\* the id and the actual username of a user
UserRecipients(user) == {IntText(user.id)} \cup Handle(user.username)

\* the ids and the actual usernames of the chat, the sender or the callback
\* originator of an update
ActualRecipients(u) ==
    IF u.message # NoObject
    THEN {IntText(u.message.chat.id)} \cup Handle(u.message.chat.username)
         \cup (IF u.message.from_user # NoObject
               THEN UserRecipients(u.message.from_user) ELSE {})
    ELSE IF u.edited_message # NoObject THEN {IntText(u.edited_message.chat_id)}
    ELSE IF u.callback_query # NoObject THEN UserRecipients(u.callback_query.from_user)
    ELSE {}

\* C38: what discovery returns from the lines get_and_log_updates wrote for
\* updates whose text or data is "hi" are ids and actual usernames of the
\* chats, senders and callback originators of those updates.
C38_RoundTrip ==
    /\ mode = "log" /\ pc = "x_returned" /\ updates # << >>
    /\ \A k \in DOMAIN updates : HasBody(updates[k]) /\ Body(updates[k]) = TEXT_HI
    => chat_ids \subseteq UNION {ActualRecipients(updates[k]) : k \in DOMAIN updates}
====
